---- MODULE Spec2Model ----
(***************************************************************************)
(* Verification model of volumizer_cli: the structure acquisition          *)
(* (cli/rcsb.py), the metric cache (cli/utils.py) and the filtering        *)
(* pipelines (scripts/filtering/get_pdbs_by_*.py).                         *)
(*                                                                         *)
(* Three specifications share the variables:                               *)
(*   SpecAcq   calls of download_biological_assembly, one step per         *)
(*             request, under every sequence of network outcomes;          *)
(*   SpecSave  save_* / have_*_on_file / load_* of the metric cache, one   *)
(*             step per write to the file, with the process interrupted    *)
(*             at any point;                                               *)
(*   SpecPipe  runs of the three filtering scripts over identifier lists,  *)
(*             using the acquisition and the cache save of the other two.  *)
(***************************************************************************)
EXTENDS Integers, Sequences, FiniteSets, TLC

VARIABLES
    \* ---- download directory and download_biological_assembly ----------
    archive,        \* archive[id][ext]: DOWNLOADED_PDB_DIR/<id>.<ext> is not
                    \* there ("none"), there in part, or complete
    dba_pc,         \* position inside download_biological_assembly
    dba_id,         \* its pdb_id argument
    dba_retries,    \* its retries argument
    dba_pass,       \* passes of "for _ in range(retries)" begun so far
    dba_requests,   \* requests issued by this call: <<[url, outcome], ...>>
    dba_sleeps,     \* sleep(1) calls made by this call
    dba_result,     \* the value returned (meaningful when dba_pc = "returned")
    dba_clean,      \* whether the call began with no archive of its pdb_id
    \* ---- metric cache and save_* --------------------------------------
    cache,          \* cache[id][kind]: PDB_FILTERING_METRIC_DIR/<id>_<kind>.json
    sv_pc,          \* position inside save_<kind>
    sv_id,          \* its pdb_id argument
    sv_kind,        \* which of the three save functions runs
    sv_metrics,     \* its metrics argument
    \* ---- download_pdb_file and the other directories ------------------
    mmtf,           \* mmtf[id]: the entry in DOWNLOADED_PDB_DIR/<id>.mmtf, or "none"
    prepared,       \* prepared[id]: the entry cleaned into PREPARED_PDB_DIR/<id>.mmtf
    dpf_pc,         \* position inside download_pdb_file
    dpf_id,         \* its pdb_id argument
    dpf_acquired,   \* whether its download_biological_assembly returned True
    \* ---- one run of a filtering script --------------------------------
    run_pc,         \* position inside main
    run_kind,       \* which script runs: the metric kind it filters by
    run_metrics,    \* the bounds given on the command line
    pdb_ids,        \* the identifiers read from input_list
    idx,            \* how many of them the for loop has taken
    metric,         \* pdb_size_metrics / stoichiometry / secondary_structure
    satisfied_pdb_ids,
    output,         \* output_list as this run wrote it
    error,          \* the exception that ended the run, "" when none
    \* ---- scripts/volumize.py: the worker pool of the id_file mode -------
    pool_pc,        \* position inside main
    tasks,          \* the tasks of pool.starmap no worker has taken yet
    worker,         \* worker[w]: the position of worker w inside
                    \* volumize_pdb_id and its pdb_id argument
    annotation,     \* the file stems whose <stem>.3.0.pdb and <stem>.3.0.json
                    \* are in ANNOTATED_PDB_DIR and ANNOTATED_DF_DIR
    outputs,        \* outputs[id]: how often volumize_pdb_and_save has written
                    \* the annotated files of id, counted up to MaxWrites
    pool_error,     \* whether a task has raised
    \* ---- cli/rcsb.py: get_pdb_size_metrics, the metadata fetch ----------
    gpsm_pc,        \* position inside rcsb.get_pdb_size_metrics
    gpsm_retries,   \* its retries argument
    gpsm_pass,      \* passes of "for _ in range(retries)" begun so far
    general_info,   \* the status of the general entry info fetched last
    assembly_info,  \* the status of the assembly info fetched last
    gpsm_result,    \* what the call ended with
    \* ---- cli/pdb.py: one call of get_stoichiometry ----------------------
    gs_pc,          \* position inside pdb.get_stoichiometry
    gs_cutoff,      \* its match_cutoff argument, in percent
    gs_aligner,     \* which align_optimal the call runs with
    gs_input,       \* the sequences as extracted, in chain order
    gs_sequences,   \* the list "sequences": <<[chain, seq], ...>>, chain being
                    \* the position of the chain in the structure
    gs_clusters,    \* the dict "clusters", in insertion order
    gs_query,       \* query_sequence
    gs_scan,        \* the cluster "for cluster_id, ... in clusters.items()" is at
    gs_joined,      \* joined_cluster
    gs_compared,    \* the last alignment made: who was aligned with whom, the
                    \* trace, and the identity as numerator and denominator
    gs_rejected,    \* the clusters the query was compared with and did not join
    gs_result,      \* the value returned
    \* ---- cli/pdb.py: one call of get_secondary_structure ----------------
    ss_labels,      \* what bts.annotate_sse gave, one label per residue
    ss_record,      \* the value returned
    \* ---- history, read by the properties only -------------------------
    calls,          \* what the current iteration of the for loop has called
    at_start,       \* the iteration's cache file as it was when it began, and
                    \* whether an earlier iteration had saved that record
    saved,          \* the (id, kind) whose record some iteration has saved
    derivations     \* derivations[<<id, kind>>]: how often pdb.get_<kind> has been
                    \* run on the prepared structure of id, counted up to
                    \* MaxDerivations

dbaVars == <<archive, dba_pc, dba_id, dba_retries, dba_pass, dba_requests,
             dba_sleeps, dba_result, dba_clean>>
svVars == <<cache, sv_pc, sv_id, sv_kind, sv_metrics>>
poolVars == <<pool_pc, tasks, worker, annotation, outputs, pool_error>>
metaVars == <<gpsm_pc, gpsm_retries, gpsm_pass, general_info, assembly_info, gpsm_result>>
stoichVars == <<gs_pc, gs_cutoff, gs_aligner, gs_input, gs_sequences, gs_clusters, gs_query,
                gs_scan, gs_joined, gs_compared, gs_rejected, gs_result>>
sseVars == <<ss_labels, ss_record>>
deriveVars == <<stoichVars, sseVars>>
dpfVars == <<mmtf, prepared, dpf_pc, dpf_id, dpf_acquired, poolVars, metaVars, deriveVars>>
runVars == <<run_pc, run_kind, run_metrics, pdb_ids, idx, metric, satisfied_pdb_ids,
             output, error, calls, at_start, saved, derivations>>
vars == <<dbaVars, svVars, dpfVars, runVars>>

----------------------------------------------------------------------------
(* Bounds of the model and constants of the program *)

\* the identifiers the inputs are drawn from
Ids == {"1abc", "2xyz"}

\* largest retries argument tried besides the default
MaxRetries == 3

\* cli/constants.py: RCSB_CONTACT_RETRIES
RCSB_CONTACT_RETRIES == 10

\* the three remote locations, in the order the code names them
Urls == {"biounit_url", "bundle_url", "structure_url"}

\* what request.urlretrieve does: it returns, raises HTTPError (the server
\* answered, the content is not there), raises a URLError that is not an
\* HTTPError (the server could not be reached), or raises
\* ContentTooShortError (the transfer ended before Content-Length bytes had
\* arrived)
Outcomes == {"ok", "HTTPError", "URLError", "ContentTooShortError"}

\* the class an except clause matches the exception by: ContentTooShortError
\* is a subclass of URLError and no HTTPError
Caught(outcome) == IF outcome = "ContentTooShortError" THEN "URLError" ELSE outcome

\* the two archive names download_biological_assembly writes
Exts == {"pdb1.gz", "pdb1.tar.gz"}

NoArchive == [e \in Exts |-> "none"]

----------------------------------------------------------------------------
(* cli/rcsb.py: download_biological_assembly *)

RetryArgs == (0..MaxRetries) \cup {RCSB_CONTACT_RETRIES}

Request(url, outcome) == [url |-> url, outcome |-> outcome]

\* request.urlretrieve(url, DOWNLOADED_PDB_DIR / f"{pdb_id}.<ext>") that
\* returned: the file is on disk
Retrieved(files, id, ext) == [files EXCEPT ![id][ext] = "complete"]

\* the download directory after request.urlretrieve(url, ... <id>.<ext>):
\* urlretrieve opens the target for writing once the server has answered and
\* copies what arrives; it removes nothing when the transfer falls short
urlretrieve(files, id, ext, outcome) ==
    IF outcome = "ok" THEN Retrieved(files, id, ext)
    ELSE IF outcome = "ContentTooShortError" THEN [files EXCEPT ![id][ext] = "partial"]
    ELSE files

\* a first request whose not-found is slept on like a connectivity error
BiounitHandlerRetries(outcome) == "sleep"

\* what the handlers of the outer try statement do with an exception raised
\* by the first request: "except HTTPError" enters the fallback, "except
\* URLError" sleeps
BiounitHandler(outcome) ==
    IF outcome = "HTTPError" THEN "bundle" ELSE "sleep"

\* a fallback that gives up after the bundle location
BundleHandlerGivesUp(outcome) ==
    IF outcome = "HTTPError" THEN "returned" ELSE "raised"

\* what happens to an exception raised by the second request, which runs
\* inside the "except HTTPError" handler of the outer try: only the inner
\* "except HTTPError" can catch it
BundleHandler(outcome) ==
    IF outcome = "HTTPError" THEN "structure" ELSE "raised"

\* a third request whose not-found is retried like a connectivity error
StructureHandlerRetries(outcome) ==
    IF outcome = "HTTPError" THEN "sleep" ELSE "raised"

\* the third request: the innermost "except HTTPError" returns False, any
\* other exception leaves the function
StructureHandler(outcome) ==
    IF outcome = "HTTPError" THEN "returned" ELSE "raised"

\* a loop that makes one pass too many
dba_for_one_more ==
    /\ dba_pc = "for"
    /\ IF dba_pass <= dba_retries
       THEN /\ dba_pass' = dba_pass + 1
            /\ dba_pc' = "biounit"
            /\ UNCHANGED dba_result
       ELSE /\ dba_pc' = "returned"
            /\ dba_result' = FALSE
            /\ UNCHANGED dba_pass
    /\ UNCHANGED <<archive, dba_id, dba_clean, dba_retries, dba_requests, dba_sleeps>>

\* for _ in range(retries): the next pass, or the "return False" after the
\* loop
dba_for ==
    /\ dba_pc = "for"
    /\ IF dba_pass < dba_retries
       THEN /\ dba_pass' = dba_pass + 1
            /\ dba_pc' = "biounit"
            /\ UNCHANGED dba_result
       ELSE /\ dba_pc' = "returned"
            /\ dba_result' = FALSE
            /\ UNCHANGED dba_pass
    /\ UNCHANGED <<archive, dba_id, dba_clean, dba_retries, dba_requests, dba_sleeps>>

\* request.urlretrieve(biounit_url, ... f"{pdb_id}.pdb1.gz")
dba_biounit ==
    /\ dba_pc = "biounit"
    /\ \E outcome \in Outcomes :
        /\ dba_requests' = Append(dba_requests, Request("biounit_url", Caught(outcome)))
        /\ archive' = urlretrieve(archive, dba_id, "pdb1.gz", outcome)
        /\ IF outcome = "ok"
           THEN /\ dba_pc' = "returned"
                /\ dba_result' = TRUE
           ELSE /\ dba_pc' = BiounitHandler(Caught(outcome))
                /\ UNCHANGED dba_result
    /\ UNCHANGED <<dba_id, dba_clean, dba_retries, dba_pass, dba_sleeps>>

\* request.urlretrieve(bundle_url, ... f"{pdb_id}.pdb1.tar.gz")
dba_bundle ==
    /\ dba_pc = "bundle"
    /\ \E outcome \in Outcomes :
        /\ dba_requests' = Append(dba_requests, Request("bundle_url", Caught(outcome)))
        /\ archive' = urlretrieve(archive, dba_id, "pdb1.tar.gz", outcome)
        /\ IF outcome = "ok"
           THEN /\ dba_pc' = "returned"
                /\ dba_result' = TRUE
           ELSE /\ dba_pc' = BundleHandler(Caught(outcome))
                /\ UNCHANGED dba_result
    /\ UNCHANGED <<dba_id, dba_clean, dba_retries, dba_pass, dba_sleeps>>

\* request.urlretrieve(structure_url, ... f"{pdb_id}.pdb1.gz")
dba_structure ==
    /\ dba_pc = "structure"
    /\ \E outcome \in Outcomes :
        /\ dba_requests' = Append(dba_requests, Request("structure_url", Caught(outcome)))
        /\ archive' = urlretrieve(archive, dba_id, "pdb1.gz", outcome)
        /\ IF outcome = "ok"
           THEN /\ dba_pc' = "returned"
                /\ dba_result' = TRUE
           ELSE /\ dba_pc' = StructureHandler(Caught(outcome))
                /\ dba_result' = FALSE
    /\ UNCHANGED <<dba_id, dba_clean, dba_retries, dba_pass, dba_sleeps>>

\* except URLError: sleep(1), then the next pass of the loop
dba_sleep ==
    /\ dba_pc = "sleep"
    /\ dba_sleeps' = dba_sleeps + 1
    /\ dba_pc' = "for"
    /\ UNCHANGED <<archive, dba_id, dba_clean, dba_retries, dba_pass, dba_requests, dba_result>>

\* the steps of one call
download_biological_assembly ==
    dba_for \/ dba_biounit \/ dba_bundle \/ dba_structure \/ dba_sleep

\* entering the function with these arguments
dba_enter(pdb_id, retries) ==
    /\ dba_pc' = "for"
    /\ dba_id' = pdb_id
    /\ dba_clean' = (archive[pdb_id] = NoArchive)
    /\ dba_retries' = retries
    /\ dba_pass' = 0
    /\ dba_requests' = <<>>
    /\ dba_sleeps' = 0
    /\ dba_result' = FALSE
    /\ UNCHANGED archive

dba_finished == dba_pc \in {"returned", "raised"}

\* the call is over and its caller has taken the result: the locals are gone
dba_leave ==
    /\ dba_pc' = "idle"
    /\ dba_id' = "1abc"
    /\ dba_clean' = FALSE
    /\ dba_retries' = 0
    /\ dba_pass' = 0
    /\ dba_requests' = <<>>
    /\ dba_sleeps' = 0
    /\ dba_result' = FALSE
    /\ UNCHANGED archive

dbaInit ==
    /\ archive = [i \in Ids |-> NoArchive]
    /\ dba_pc = "idle"
    /\ dba_id = "1abc"
    /\ dba_clean = FALSE
    /\ dba_retries = 0
    /\ dba_pass = 0
    /\ dba_requests = <<>>
    /\ dba_sleeps = 0
    /\ dba_result = FALSE

----------------------------------------------------------------------------
(* Metric records and their JSON text *)

\* the three metric kinds; the file of a record is <pdb_id>_<kind>.json
Kinds == {"size", "stoichiometry", "secondary_structure"}

\* a Python value: an int, or a float held as the fraction n/d
IntVal(n) == [t |-> "int", n |-> n, d |-> 1]
FloatVal(n, d) == [t |-> "float", n |-> n, d |-> d]

\* a dict key: an int or a str, both written by their text
IntKey(s) == [t |-> "int", s |-> s]
StrKey(s) == [t |-> "str", s |-> s]

\* a dict is the sequence of its items in insertion order
Item(key, val) == [key |-> key, val |-> val]

\* the chunks json.dump writes for a dict: the opening brace, one chunk per
\* item, the closing brace. A key that is not a str is written as the str of
\* it (JSON object keys are strings); values are written as they are.
OpenBrace == [tok |-> "{", key |-> StrKey(""), val |-> IntVal(0)]
CloseBrace == [tok |-> "}", key |-> StrKey(""), val |-> IntVal(0)]
ItemChunk(item) == [tok |-> "item", key |-> StrKey(item.key.s), val |-> item.val]

JsonDump(metrics) ==
    <<OpenBrace>> \o [i \in 1..Len(metrics) |-> ItemChunk(metrics[i])] \o <<CloseBrace>>

\* json.load: a text parses when it is a whole object, brace to brace
JsonParses(text) ==
    /\ Len(text) >= 2
    /\ text[1].tok = "{"
    /\ text[Len(text)].tok = "}"
    /\ \A i \in 2..(Len(text) - 1) : text[i].tok = "item"

JsonLoad(text) ==
    [i \in 1..(Len(text) - 2) |-> Item(text[i + 1].key, text[i + 1].val)]

----------------------------------------------------------------------------
(* cli/utils.py: the metric cache *)

NoFile == [exists |-> FALSE, text |-> <<>>]
EmptyFile == [exists |-> TRUE, text |-> <<>>]

\* a check that never finds the record
have_on_file_never(store, pdb_id, kind) == FALSE

\* a check that looks at the size record whatever the kind
have_on_file_size_only(store, pdb_id, kind) == store[pdb_id]["size"].exists

\* have_pdb_size_metrics_on_file, have_stoichiometry_on_file,
\* have_secondary_structure_on_file: (path).is_file()
have_on_file(store, pdb_id, kind) == store[pdb_id][kind].exists

\* load_pdb_size_metrics, load_stoichiometry, load_secondary_structure:
\* None when the file is missing, else json.load of it, which raises
\* JSONDecodeError on a text that is no whole JSON value
load(store, pdb_id, kind) ==
    IF ~store[pdb_id][kind].exists
    THEN [status |-> "None", value |-> <<>>]
    ELSE IF JsonParses(store[pdb_id][kind].text)
         THEN [status |-> "ok", value |-> JsonLoad(store[pdb_id][kind].text)]
         ELSE [status |-> "JSONDecodeError", value |-> <<>>]

\* open(path, mode="w"): the file is created, or truncated when it exists
sv_open ==
    /\ sv_pc = "open"
    /\ cache' = [cache EXCEPT ![sv_id][sv_kind] = EmptyFile]
    /\ sv_pc' = "dump"
    /\ UNCHANGED <<sv_id, sv_kind, sv_metrics>>

\* json.dump(metrics, out_file): the next chunk reaches the file
sv_write ==
    /\ sv_pc = "dump"
    /\ Len(cache[sv_id][sv_kind].text) < Len(JsonDump(sv_metrics))
    /\ cache' = [cache EXCEPT ![sv_id][sv_kind].text =
                    Append(@, JsonDump(sv_metrics)[Len(@) + 1])]
    /\ UNCHANGED <<sv_pc, sv_id, sv_kind, sv_metrics>>

\* the end of the with block: every chunk is written, the file is closed
sv_close ==
    /\ sv_pc = "dump"
    /\ Len(cache[sv_id][sv_kind].text) = Len(JsonDump(sv_metrics))
    /\ sv_pc' = "returned"
    /\ UNCHANGED <<cache, sv_id, sv_kind, sv_metrics>>

\* the steps of one call of save_pdb_size_metrics, save_stoichiometry or
\* save_secondary_structure
save == sv_open \/ sv_write \/ sv_close

\* entering save_<kind>(pdb_id, metrics)
sv_enter(pdb_id, kind, metrics) ==
    /\ sv_pc' = "open"
    /\ sv_id' = pdb_id
    /\ sv_kind' = kind
    /\ sv_metrics' = metrics
    /\ UNCHANGED cache

\* the process is killed while it is inside save_<kind>: nothing more is
\* written, what reached the file stays
sv_interrupt ==
    /\ sv_pc \in {"open", "dump"}
    /\ sv_pc' = "interrupted"
    /\ UNCHANGED <<cache, sv_id, sv_kind, sv_metrics>>

\* the call is over and its caller goes on
sv_leave ==
    /\ sv_pc' = "idle"
    /\ sv_id' = "1abc"
    /\ sv_kind' = "size"
    /\ sv_metrics' = <<>>
    /\ UNCHANGED cache

svInit ==
    /\ cache = [i \in Ids |-> [k \in Kinds |-> NoFile]]
    /\ sv_pc = "idle"
    /\ sv_id = "1abc"
    /\ sv_kind = "size"
    /\ sv_metrics = <<>>

----------------------------------------------------------------------------
(* cli/constants.py and cli/pdb.py: the metric derivations *)

\* a structure is the sequence of its chains, a chain the sequence of its
\* residues; a residue has a name, a number of atoms and the label
\* bts.annotate_sse gives it ("" when it gives none)
Residue(res_name, atoms, sse) == [res_name |-> res_name, atoms |-> atoms, sse |-> sse]

RESIDUE_LETTER_CONVERSION ==
    [n \in {"ALA", "CYS", "ASP", "GLU", "PHE", "GLY", "HIS", "ILE", "LYS", "LEU",
            "MET", "ASN", "PRO", "GLN", "ARG", "SER", "THR", "VAL", "TRP", "TYR"} |->
        CASE n = "ALA" -> "A" [] n = "CYS" -> "C" [] n = "ASP" -> "D" [] n = "GLU" -> "E"
          [] n = "PHE" -> "F" [] n = "GLY" -> "G" [] n = "HIS" -> "H" [] n = "ILE" -> "I"
          [] n = "LYS" -> "K" [] n = "LEU" -> "L" [] n = "MET" -> "M" [] n = "ASN" -> "N"
          [] n = "PRO" -> "P" [] n = "GLN" -> "Q" [] n = "ARG" -> "R" [] n = "SER" -> "S"
          [] n = "THR" -> "T" [] n = "VAL" -> "V" [] n = "TRP" -> "W" [] n = "TYR" -> "Y"]

\* SEQUENCE_IDENTITY_CUTOFF = 0.90, in percent
SEQUENCE_IDENTITY_CUTOFF == 90

\* BIOTITE_SSE_CODES
BIOTITE_SSE_CODES == [helix |-> {"a"}, strand |-> {"b"}]

RECURSIVE SumSeq(_)
SumSeq(q) == IF Len(q) = 0 THEN 0 ELSE q[1] + SumSeq(Tail(q))

RECURSIVE Flatten(_)
Flatten(qq) == IF Len(qq) = 0 THEN <<>> ELSE qq[1] \o Flatten(Tail(qq))

RECURSIVE Gcd(_, _)
Gcd(a, b) == IF b = 0 THEN a ELSE Gcd(b, a % b)

\* the float n / d
Fraction(n, d) == FloatVal(n \div Gcd(n, d), d \div Gcd(n, d))

\* str(i) of a small int
Str(i) ==
    CASE i = 0 -> "0" [] i = 1 -> "1" [] i = 2 -> "2" [] i = 3 -> "3" [] i = 4 -> "4"
      [] i = 5 -> "5" [] i = 6 -> "6" [] i = 7 -> "7" [] i = 8 -> "8" [] i = 9 -> "9"

\* pdb.get_pdb_size_metrics: len(structure), bts.get_residue_count,
\* bts.get_chain_count
get_pdb_size_metrics(structure) ==
    << Item(StrKey("atoms"),
            IntVal(SumSeq([i \in 1..Len(Flatten(structure)) |-> Flatten(structure)[i].atoms]))),
       Item(StrKey("residues"), IntVal(Len(Flatten(structure)))),
       Item(StrKey("chains"), IntVal(Len(structure))) >>

\* the one-letter sequence of a chain, "X" for a residue the table lacks
ChainSequence(chain) ==
    [i \in 1..Len(chain) |->
        IF chain[i].res_name \in DOMAIN RESIDUE_LETTER_CONVERSION
        THEN RESIDUE_LETTER_CONVERSION[chain[i].res_name]
        ELSE "X"]

Max(a, b) == IF a >= b THEN a ELSE b

\* alignment[0].trace of align_optimal(query, representative, ...): one row
\* <<position in query, position in representative>> per alignment column,
\* -1 for a gap. The toolkit's scoring is outside the repository; here the
\* sequences are paired from their first residues and the longer one ends
\* opposite gaps.
AlignmentTrace(query, representative) ==
    [c \in 1..Max(Len(query), Len(representative)) |->
        << IF c <= Len(query) THEN c - 1 ELSE -1,
           IF c <= Len(representative) THEN c - 1 ELSE -1 >>]

\* sum([1 for position in trace if position[-1] != -1]), the numerator of
\* identity; the denominator is trace.shape[0]
IdentityCount(trace) == Cardinality({c \in 1..Len(trace) : trace[c][2] # -1})

\* identity >= match_cutoff, with the cutoff in percent
IsMatch(query, representative, match_cutoff) ==
    LET trace == AlignmentTrace(query, representative)
    IN  IdentityCount(trace) * 100 >= match_cutoff * Len(trace)

\* the while loop of get_stoichiometry: sequences.pop() takes the last
\* sequence left; it joins the first cluster whose first member it matches,
\* else it starts a new cluster
RECURSIVE ClusterLoop(_, _, _)
ClusterLoop(sequences, clusters, match_cutoff) ==
    IF Len(sequences) = 0 THEN clusters
    ELSE LET query == sequences[Len(sequences)]
             rest == SubSeq(sequences, 1, Len(sequences) - 1)
             matches == {c \in 1..Len(clusters) : IsMatch(query, clusters[c][1], match_cutoff)}
         IN  IF matches # {}
             THEN LET first == CHOOSE c \in matches : \A o \in matches : c <= o
                  IN  ClusterLoop(rest, [clusters EXCEPT ![first] = Append(@, query)],
                                  match_cutoff)
             ELSE ClusterLoop(rest, Append(clusters, <<query>>), match_cutoff)

\* pdb.get_stoichiometry of a structure with at least one chain:
\* {cluster_id: len(cluster_sequences)} with int cluster ids from 0
get_stoichiometry(structure, match_cutoff) ==
    LET sequences == [i \in 1..Len(structure) |-> ChainSequence(structure[i])]
        clusters == ClusterLoop(SubSeq(sequences, 1, Len(sequences) - 1),
                                << <<sequences[Len(sequences)]>> >>, match_cutoff)
    IN  [c \in 1..Len(clusters) |-> Item(IntKey(Str(c - 1)), IntVal(Len(clusters[c])))]

\* fractions over all residues, the unlabelled ones included
get_secondary_structure_all_residues(structure) ==
    LET sse == [i \in 1..Len(Flatten(structure)) |-> Flatten(structure)[i].sse]
        helix_residues == Cardinality({i \in 1..Len(sse) : sse[i] \in BIOTITE_SSE_CODES.helix})
        strand_residues == Cardinality({i \in 1..Len(sse) : sse[i] \in BIOTITE_SSE_CODES.strand})
        total_sse_residues == Len(sse)
    IN  IF total_sse_residues = 0
        THEN << Item(StrKey("helix"), FloatVal(0, 1)),
                Item(StrKey("strand"), FloatVal(0, 1)),
                Item(StrKey("coil"), FloatVal(1, 1)) >>
        ELSE << Item(StrKey("helix"), Fraction(helix_residues, total_sse_residues)),
                Item(StrKey("strand"), Fraction(strand_residues, total_sse_residues)),
                Item(StrKey("coil"),
                     Fraction(total_sse_residues - helix_residues - strand_residues,
                              total_sse_residues)) >>

\* the division made without looking at the total first: it raises
\* ZeroDivisionError when no residue is labelled
get_secondary_structure_unguarded(structure) ==
    LET sse == [i \in 1..Len(Flatten(structure)) |-> Flatten(structure)[i].sse]
        helix_residues == Cardinality({i \in 1..Len(sse) : sse[i] \in BIOTITE_SSE_CODES.helix})
        strand_residues == Cardinality({i \in 1..Len(sse) : sse[i] \in BIOTITE_SSE_CODES.strand})
        total_sse_residues == Cardinality({i \in 1..Len(sse) : sse[i] # ""})
    IN  IF total_sse_residues = 0
        THEN << Item(StrKey("ZeroDivisionError"), FloatVal(0, 1)) >>
        ELSE << Item(StrKey("helix"), Fraction(helix_residues, total_sse_residues)),
                Item(StrKey("strand"), Fraction(strand_residues, total_sse_residues)),
                Item(StrKey("coil"),
                     Fraction(total_sse_residues - helix_residues - strand_residues,
                              total_sse_residues)) >>

\* pdb.get_secondary_structure
get_secondary_structure(structure) ==
    LET sse == [i \in 1..Len(Flatten(structure)) |-> Flatten(structure)[i].sse]
        helix_residues == Cardinality({i \in 1..Len(sse) : sse[i] \in BIOTITE_SSE_CODES.helix})
        strand_residues == Cardinality({i \in 1..Len(sse) : sse[i] \in BIOTITE_SSE_CODES.strand})
        total_sse_residues == Cardinality({i \in 1..Len(sse) : sse[i] # ""})
    IN  IF total_sse_residues = 0
        THEN << Item(StrKey("helix"), FloatVal(0, 1)),
                Item(StrKey("strand"), FloatVal(0, 1)),
                Item(StrKey("coil"), FloatVal(1, 1)) >>
        ELSE << Item(StrKey("helix"), Fraction(helix_residues, total_sse_residues)),
                Item(StrKey("strand"), Fraction(strand_residues, total_sse_residues)),
                Item(StrKey("coil"),
                     Fraction(total_sse_residues - helix_residues - strand_residues,
                              total_sse_residues)) >>

\* the derivation each filtering script runs on the prepared structure
Derive(kind, structure) ==
    CASE kind = "size" -> get_pdb_size_metrics(structure)
      [] kind = "stoichiometry" -> get_stoichiometry(structure, SEQUENCE_IDENTITY_CUTOFF)
      [] kind = "secondary_structure" -> get_secondary_structure(structure)

----------------------------------------------------------------------------
(* The remote archive: what an identifier's entry can hold *)

NoResolution == [present |-> FALSE, value |-> 0]
ResolutionOf(value) == [present |-> TRUE, value |-> value]

\* cli/constants.py: MAX_RESOLUTION (default 5.0)
MAX_RESOLUTION == 5

Monomer == << <<Residue("ALA", 5, "a"), Residue("GLY", 4, "c")>> >>

DimerWithWater ==
    << <<Residue("VAL", 7, "b"), Residue("LYS", 9, "b"), Residue("HOH", 1, "")>>,
       <<Residue("VAL", 7, "b"), Residue("LYS", 9, "b")>> >>

\* an entry without a resolution, one at the cutoff, one above it
Entries ==
    [e \in {"nmr", "at_cutoff", "low_quality"} |->
        CASE e = "nmr" -> [resolution |-> NoResolution, structure |-> Monomer]
          [] e = "at_cutoff" -> [resolution |-> ResolutionOf(MAX_RESOLUTION),
                                 structure |-> DimerWithWater]
          [] e = "low_quality" -> [resolution |-> ResolutionOf(MAX_RESOLUTION + 1),
                                   structure |-> Monomer]]

EntryNames == DOMAIN Entries

----------------------------------------------------------------------------
(* cli/utils.py and cli/rcsb.py: the local structure files *)

\* utils.is_pdb_downloaded: get_downloaded_pdb_path(pdb_id).is_file()
is_pdb_downloaded(files, pdb_id) == files[pdb_id] # "none"

\* utils.is_pdb_prepared: get_prepared_pdb_path(pdb_id).is_file()
is_pdb_prepared(files, pdb_id) == files[pdb_id] # "none"

\* download_pdb_file returns utils.get_downloaded_pdb_path(pdb_id), a Path,
\* whether or not the file is there
download_pdb_file_value(pdb_id) == [type |-> "Path", stem |-> pdb_id]

\* bool(value) as "if not ..." takes it: a Path is always true
Truthy(value) == IF value.type = "bool" THEN value.value ELSE TRUE

\* download_pdb_file, on entry: "if not utils.is_pdb_downloaded(pdb_id)"
\* calls download_biological_assembly(pdb_id) with the default retries
dpf_check ==
    /\ dpf_pc = "check"
    /\ IF ~is_pdb_downloaded(mmtf, dpf_id)
       THEN /\ dba_enter(dpf_id, RCSB_CONTACT_RETRIES)
            /\ dpf_pc' = "download_biological_assembly"
       ELSE /\ dpf_pc' = "returned"
            /\ UNCHANGED dbaVars
    /\ UNCHANGED <<mmtf, prepared, dpf_id, dpf_acquired, poolVars, metaVars, deriveVars>>

\* download_pdb_file, once download_biological_assembly is over: an
\* exception passes through; True leads to utils.decompress_pdb, which
\* leaves the entry's structure file in the download directory
dpf_resume ==
    /\ dpf_pc = "download_biological_assembly"
    /\ dba_finished
    /\ dba_leave
    /\ IF dba_pc = "raised"
       THEN /\ dpf_pc' = "raised"
            /\ dpf_acquired' = FALSE
            /\ UNCHANGED mmtf
       ELSE /\ dpf_pc' = "returned"
            /\ dpf_acquired' = dba_result
            /\ IF dba_result
               THEN \E e \in EntryNames : mmtf' = [mmtf EXCEPT ![dpf_id] = e]
               ELSE UNCHANGED mmtf
    /\ UNCHANGED <<prepared, dpf_id, poolVars, metaVars, deriveVars>>

download_pdb_file == dpf_check \/ dpf_resume

dpf_enter(pdb_id) ==
    /\ dpf_pc' = "check"
    /\ dpf_id' = pdb_id
    /\ dpf_acquired' = FALSE
    /\ UNCHANGED <<mmtf, prepared, poolVars, metaVars, deriveVars>>

\* the call is over and its caller has taken the result
dpf_leave ==
    /\ dpf_pc' = "idle"
    /\ dpf_id' = "1abc"
    /\ dpf_acquired' = FALSE
    /\ UNCHANGED <<mmtf, prepared, poolVars, metaVars, deriveVars>>

dpfInit ==
    /\ mmtf = [i \in Ids |-> "none"]
    /\ prepared = [i \in Ids |-> "none"]
    /\ dpf_pc = "idle"
    /\ dpf_id = "1abc"
    /\ dpf_acquired = FALSE

\* volumizer.pdb.clean_structure, the preparation: the residues that are
\* no amino acids of the table are dropped
clean_structure(structure) ==
    [c \in 1..Len(structure) |->
        SelectSeq(structure[c], LAMBDA r : r.res_name \in DOMAIN RESIDUE_LETTER_CONVERSION)]

----------------------------------------------------------------------------
(* cli/analysis.py: the filter evaluator, and the bounds a run is given *)

NoBound == [present |-> FALSE, value |-> IntVal(0)]
Bound(value) == [present |-> TRUE, value |-> value]

\* record[key] of a dict
Get(record, key) == record[CHOOSE i \in 1..Len(record) : record[i].key = key].val

\* a <= b for two numbers held as fractions
Leq(a, b) == a.n * b.d <= b.n * a.d

\* min <= value, and value <= max unless max is None
Within(value, min, max) ==
    /\ Leq(min, value)
    /\ max.present => Leq(value, max.value)

\* analysis.pdb_satisfies_metrics
pdb_satisfies_metrics(pdb_size_metrics, bounds) ==
    /\ Within(Get(pdb_size_metrics, StrKey("atoms")), bounds.min_atoms, bounds.max_atoms)
    /\ Within(Get(pdb_size_metrics, StrKey("residues")), bounds.min_residues,
              bounds.max_residues)
    /\ Within(Get(pdb_size_metrics, StrKey("chains")), bounds.min_chains, bounds.max_chains)

\* analysis.pdb_satisfies_stoichiometry: every cluster's member count and
\* the number of clusters are within their bounds; with the factorable flag
\* every member count divides the largest one
pdb_satisfies_stoichiometry(stoichiometry, bounds) ==
    LET counts == [i \in 1..Len(stoichiometry) |-> stoichiometry[i].val]
        largest == CHOOSE m \in 1..Len(counts) : \A o \in 1..Len(counts) : Leq(counts[o], counts[m])
    IN  /\ \A i \in 1..Len(counts) :
                Within(counts[i], bounds.min_chain_repeats, bounds.max_chain_repeats)
        /\ Within(IntVal(Len(counts)), bounds.min_unique_chains, bounds.max_unique_chains)
        /\ bounds.stoichiometry_factorable =>
                \A i \in 1..Len(counts) : counts[largest].n % counts[i].n = 0

\* analysis.pdb_satisfies_secondary_structure
pdb_satisfies_secondary_structure(secondary_structure, bounds) ==
    /\ Within(Get(secondary_structure, StrKey("helix")), bounds.min_helix,
              Bound(bounds.max_helix))
    /\ Within(Get(secondary_structure, StrKey("strand")), bounds.min_strand,
              Bound(bounds.max_strand))
    /\ Within(Get(secondary_structure, StrKey("coil")), bounds.min_coil,
              Bound(bounds.max_coil))

Satisfies(k, record, bounds) ==
    CASE k = "size" -> pdb_satisfies_metrics(record, bounds)
      [] k = "stoichiometry" -> pdb_satisfies_stoichiometry(record, bounds)
      [] k = "secondary_structure" -> pdb_satisfies_secondary_structure(record, bounds)

\* the options of get_pdbs_by_size.py at their defaults
SizeDefaults ==
    [min_atoms |-> IntVal(1), max_atoms |-> NoBound,
     min_residues |-> IntVal(1), max_residues |-> NoBound,
     min_chains |-> IntVal(1), max_chains |-> NoBound]

\* the options of get_pdbs_by_stoichiometry.py at their defaults
StoichiometryDefaults ==
    [min_chain_repeats |-> IntVal(1), max_chain_repeats |-> NoBound,
     min_unique_chains |-> IntVal(1), max_unique_chains |-> NoBound,
     stoichiometry_factorable |-> FALSE]

\* the options of get_pdbs_by_secondary_structure.py at their defaults
SecondaryStructureDefaults ==
    [min_helix |-> FloatVal(0, 1), max_helix |-> FloatVal(1, 1),
     min_strand |-> FloatVal(0, 1), max_strand |-> FloatVal(1, 1),
     min_coil |-> FloatVal(0, 1), max_coil |-> FloatVal(1, 1)]

\* the command lines the runs are drawn from: for the size script the
\* defaults and a maximum of residues, for the other two one narrowed bound
CommandLines(k) ==
    CASE k = "size" ->
            { SizeDefaults,
              [SizeDefaults EXCEPT !.max_residues = Bound(IntVal(2))] }
      [] k = "stoichiometry" ->
            { [StoichiometryDefaults EXCEPT !.max_chain_repeats = Bound(IntVal(1))] }
      [] k = "secondary_structure" ->
            { [SecondaryStructureDefaults EXCEPT !.min_helix = FloatVal(1, 2)] }

\* max * 2 if max is not None else None
Doubled(max) ==
    IF max.present THEN Bound([max.value EXCEPT !.n = 2 * @]) ELSE NoBound

\* preparation_metrics of get_pdbs_by_size.py
preparation_metrics(bounds) ==
    [bounds EXCEPT !.max_atoms = Doubled(@), !.max_residues = Doubled(@),
                   !.max_chains = Doubled(@)]

----------------------------------------------------------------------------
(* scripts/filtering/get_pdbs_by_{size,stoichiometry,secondary_structure}.py *)

\* longest input list
MaxListLen == 2

\* the count of the derivations of one record stops here
MaxDerivations == 2

Min(a, b) == IF a <= b THEN a ELSE b

\* the input lists: every list of at most MaxListLen identifiers, repeated
\* ones included, that is empty or begins with "1abc" (the code treats all
\* identifiers alike, so the first one is fixed)
InputLists ==
    {list \in UNION {[1..n -> Ids] : n \in 0..MaxListLen} :
        Len(list) > 0 => list[1] = "1abc"}

cur_id == pdb_ids[idx]

NoMetric == [status |-> "None", value |-> <<>>]

NotBegun == [file |-> NoFile, saved |-> FALSE]

Called(name) == calls' = Append(calls, name)

\* rcsb.get_resolution(path): the resolution field of the downloaded file
get_resolution(files, id) == Entries[files[id]].resolution

\* a gate that also stops a resolution equal to the maximum
ResolutionAtLeastMax(resolution) ==
    resolution.present /\ resolution.value >= MAX_RESOLUTION

\* "resolution is not None and resolution > MAX_RESOLUTION"
ResolutionTooHigh(resolution) ==
    resolution.present /\ resolution.value > MAX_RESOLUTION

\* rcsb.get_biological_assembly(pdb_id): the structure in the downloaded file
get_biological_assembly(files, id) == Entries[files[id]].structure

\* load_structure(utils.get_prepared_pdb_path(pdb_id))
load_prepared(files, id) == clean_structure(Entries[files[id]].structure)

\* an exception leaves main: the run is over
Raise(name) ==
    /\ run_pc' = "raised"
    /\ error' = name

\* main is started: the bounds are read from the options, the identifiers
\* from input_list
main_start ==
    /\ run_pc \in {"idle", "done", "raised"}
    /\ \E k \in Kinds : \E bounds \in CommandLines(k) : \E list \in InputLists :
        /\ run_kind' = k
        /\ run_metrics' = bounds
        /\ pdb_ids' = list
    /\ idx' = 0
    /\ satisfied_pdb_ids' = <<>>
    /\ metric' = NoMetric
    /\ output' = [written |-> FALSE, lines |-> <<>>]
    /\ error' = ""
    /\ calls' = <<>>
    /\ at_start' = NotBegun
    /\ run_pc' = "for"
    /\ UNCHANGED <<saved, derivations, dbaVars, svVars, dpfVars>>

\* for pdb_id in tqdm(pdb_ids): the next identifier, or after the last one
\* the writing of output_list
main_for ==
    /\ run_pc = "for"
    /\ IF idx < Len(pdb_ids)
       THEN /\ idx' = idx + 1
            /\ calls' = <<>>
            /\ at_start' = [file |-> cache[pdb_ids[idx + 1]][run_kind],
                            saved |-> <<pdb_ids[idx + 1], run_kind>> \in saved]
            /\ metric' = NoMetric
            /\ run_pc' = "have_on_file"
            /\ UNCHANGED output
       ELSE /\ output' = [written |-> TRUE, lines |-> satisfied_pdb_ids]
            /\ run_pc' = "done"
            /\ UNCHANGED <<idx, calls, at_start, metric>>
    /\ UNCHANGED <<run_kind, run_metrics, pdb_ids, satisfied_pdb_ids, error,
                   saved, derivations, dbaVars, svVars, dpfVars>>

\* if utils.have_<kind>_on_file(pdb_id): <metric> = utils.load_<kind>(pdb_id)
main_have_on_file ==
    /\ run_pc = "have_on_file"
    /\ IF have_on_file(cache, cur_id, run_kind)
       THEN /\ Called("load")
            /\ IF load(cache, cur_id, run_kind).status = "JSONDecodeError"
               THEN /\ Raise("JSONDecodeError")
                    /\ UNCHANGED metric
               ELSE /\ metric' = load(cache, cur_id, run_kind)
                    /\ run_pc' = "filter"
                    /\ UNCHANGED error
       ELSE /\ run_pc' = "is_pdb_downloaded"
            /\ UNCHANGED <<metric, error, calls>>
    /\ UNCHANGED <<run_kind, run_metrics, pdb_ids, idx, satisfied_pdb_ids, output,
                   at_start, saved, derivations, dbaVars, svVars, dpfVars>>

\* if not utils.is_pdb_downloaded(pdb_id): ... rcsb.download_pdb_file(pdb_id)
main_is_pdb_downloaded ==
    /\ run_pc = "is_pdb_downloaded"
    /\ IF ~is_pdb_downloaded(mmtf, cur_id)
       THEN /\ Called("download_pdb_file")
            /\ dpf_enter(cur_id)
            /\ run_pc' = "download_pdb_file"
       ELSE /\ run_pc' = "is_pdb_prepared"
            /\ UNCHANGED <<calls, dpfVars>>
    /\ UNCHANGED <<run_kind, run_metrics, pdb_ids, idx, metric, satisfied_pdb_ids, output,
                   error, at_start, saved, derivations, dbaVars, svVars>>

\* "if not rcsb.download_pdb_file(pdb_id): continue", once the call is over
main_download_pdb_file ==
    /\ run_pc = "download_pdb_file"
    /\ dpf_pc \in {"returned", "raised"}
    /\ dpf_leave
    /\ IF dpf_pc = "raised"
       THEN /\ Raise("URLError")
            /\ UNCHANGED calls
       ELSE /\ Called(IF dpf_acquired THEN "downloaded" ELSE "not downloaded")
            /\ run_pc' = IF ~Truthy(download_pdb_file_value(cur_id))
                         THEN "for"
                         ELSE "is_pdb_prepared"
            /\ UNCHANGED error
    /\ UNCHANGED <<run_kind, run_metrics, pdb_ids, idx, metric, satisfied_pdb_ids, output,
                   at_start, saved, derivations, dbaVars, svVars>>

\* if not utils.is_pdb_prepared(pdb_id):
main_is_pdb_prepared ==
    /\ run_pc = "is_pdb_prepared"
    /\ run_pc' = IF ~is_pdb_prepared(prepared, cur_id) THEN "get_resolution" ELSE "derive"
    /\ UNCHANGED <<run_kind, run_metrics, pdb_ids, idx, metric, satisfied_pdb_ids, output,
                   error, calls, at_start, saved, derivations, dbaVars, svVars, dpfVars>>

\* resolution = rcsb.get_resolution(...), which cannot read a file that is
\* not there; "if resolution is not None and resolution > MAX_RESOLUTION:
\* continue"
main_get_resolution ==
    /\ run_pc = "get_resolution"
    /\ Called("get_resolution")
    /\ IF ~is_pdb_downloaded(mmtf, cur_id)
       THEN Raise("FileNotFoundError")
       ELSE /\ run_pc' = IF ResolutionTooHigh(get_resolution(mmtf, cur_id)) THEN "for"
                         ELSE IF run_kind = "size" THEN "early_exit"
                         ELSE "clean_structure"
            /\ UNCHANGED error
    /\ UNCHANGED <<run_kind, run_metrics, pdb_ids, idx, metric, satisfied_pdb_ids, output,
                   at_start, saved, derivations, dbaVars, svVars, dpfVars>>

\* get_pdbs_by_size.py only: "early exit and don't clean if the PDB file is
\* too big"
main_early_exit ==
    /\ run_pc = "early_exit"
    /\ Called("early_exit")
    /\ metric' = [status |-> "ok",
                  value |-> get_pdb_size_metrics(get_biological_assembly(mmtf, cur_id))]
    /\ run_pc' = IF ~pdb_satisfies_metrics(metric'.value, preparation_metrics(run_metrics))
                 THEN "for"
                 ELSE "clean_structure"
    /\ UNCHANGED <<run_kind, run_metrics, pdb_ids, idx, satisfied_pdb_ids, output, error,
                   at_start, saved, derivations, dbaVars, svVars, dpfVars>>

\* structure = rcsb.get_biological_assembly(pdb_id); prepared_structure =
\* clean_structure(structure); save_structure(prepared path, ...)
main_clean_structure ==
    /\ run_pc = "clean_structure"
    /\ Called("clean_structure")
    /\ prepared' = [prepared EXCEPT ![cur_id] = mmtf[cur_id]]
    /\ run_pc' = "derive"
    /\ UNCHANGED <<mmtf, dpf_pc, dpf_id, dpf_acquired, poolVars, metaVars, deriveVars>>
    /\ UNCHANGED <<run_kind, run_metrics, pdb_ids, idx, metric, satisfied_pdb_ids, output,
                   error, at_start, saved, derivations, dbaVars, svVars>>

\* <metric> = pdb.get_<kind>(load_structure(prepared path)), and the call of
\* utils.save_<kind>(pdb_id, <metric>)
main_derive ==
    /\ run_pc = "derive"
    /\ Called("derive")
    /\ metric' = [status |-> "ok", value |-> Derive(run_kind, load_prepared(prepared, cur_id))]
    /\ sv_enter(cur_id, run_kind, metric'.value)
    /\ derivations' = [derivations EXCEPT ![<<cur_id, run_kind>>] = Min(@ + 1, MaxDerivations)]
    /\ run_pc' = "save"
    /\ UNCHANGED <<run_kind, run_metrics, pdb_ids, idx, satisfied_pdb_ids, output, error,
                   at_start, saved, dbaVars, dpfVars>>

\* utils.save_<kind> has returned
main_save ==
    /\ run_pc = "save"
    /\ sv_pc = "returned"
    /\ sv_leave
    /\ Called("save")
    /\ saved' = saved \cup {<<cur_id, run_kind>>}
    /\ run_pc' = "filter"
    /\ UNCHANGED <<run_kind, run_metrics, pdb_ids, idx, metric, satisfied_pdb_ids, output,
                   error, at_start, derivations, dbaVars, dpfVars>>

\* if <metric> is None: warnings.warn(...)
\* elif analysis.pdb_satisfies_...(<metric>, metrics): satisfied_pdb_ids.append(pdb_id)
main_filter ==
    /\ run_pc = "filter"
    /\ IF metric.status = "None"
       THEN /\ Called("warn")
            /\ UNCHANGED satisfied_pdb_ids
       ELSE /\ Called("filter")
            /\ satisfied_pdb_ids' =
                    IF Satisfies(run_kind, metric.value, run_metrics)
                    THEN Append(satisfied_pdb_ids, cur_id)
                    ELSE satisfied_pdb_ids
    /\ run_pc' = "for"
    /\ UNCHANGED <<run_kind, run_metrics, pdb_ids, idx, metric, output, error, at_start,
                   saved, derivations, dbaVars, svVars, dpfVars>>

runInit ==
    /\ run_pc = "idle"
    /\ run_kind = "size"
    /\ run_metrics = SizeDefaults
    /\ pdb_ids = <<>>
    /\ idx = 0
    /\ metric = NoMetric
    /\ satisfied_pdb_ids = <<>>
    /\ output = [written |-> FALSE, lines |-> <<>>]
    /\ error = ""
    /\ calls = <<>>
    /\ at_start = NotBegun
    /\ saved = {}
    /\ derivations = [p \in Ids \X Kinds |-> 0]

----------------------------------------------------------------------------
(* scripts/volumize.py: main in id_file mode, and volumize_pdb_id *)

\* the jobs option: the number of worker processes of the pool
Jobs == 2

Workers == 1..Jobs

\* the count of the writes of one identifier's annotated files stops here
MaxWrites == 2

Idle == [pc |-> "idle", id |-> "1abc"]

At(w, pc) == worker[w].pc = pc

Goto(w, pc) == worker' = [worker EXCEPT ![w].pc = pc]

\* utils.have_annotation(file_stem), with its default resolution 3.0
have_annotation(stems, file_stem) == file_stem \in stems

\* what download_biological_assembly(pdb_id) can end with: True with one of
\* the two archives written, False, or an exception
AcquisitionResults == Exts \cup {"False", "raised"}

\* the task of a worker is over: volumize_pdb_id returned or raised
Finish(w, raised) ==
    /\ worker' = [worker EXCEPT ![w] = Idle]
    /\ pool_error' = (pool_error \/ raised)

\* main: pdb_ids read from the id file, tasks = [[pdb_id] for pdb_id in
\* pdb_ids], multiprocessing.Pool(processes=jobs)
pool_start ==
    /\ pool_pc \in {"idle", "done", "raised"}
    /\ \E list \in InputLists : tasks' = list
    /\ \E more \in SUBSET Ids : annotation' = annotation \cup more
    /\ worker' = [w \in Workers |-> Idle]
    /\ pool_error' = FALSE
    /\ pool_pc' = "starmap"
    /\ UNCHANGED <<outputs, mmtf, prepared, dpf_pc, dpf_id, dpf_acquired, metaVars, deriveVars, dbaVars,
                   svVars, runVars>>

\* pool.starmap(volumize_pdb_id, tasks): a worker that is free takes the
\* next task
pool_take ==
    /\ pool_pc = "starmap"
    /\ tasks # <<>>
    /\ \E w \in Workers :
        /\ At(w, "idle")
        /\ worker' = [worker EXCEPT ![w] = [pc |-> "have_annotation", id |-> Head(tasks)]]
    /\ tasks' = Tail(tasks)
    /\ UNCHANGED <<pool_pc, annotation, outputs, pool_error, mmtf, prepared, dpf_pc,
                   dpf_id, dpf_acquired, metaVars, deriveVars, dbaVars, svVars, runVars>>

\* if not cli_utils.have_annotation(pdb_id): ... else:
\* print(pd.read_json(get_annotated_pdb_path(pdb_id).with_suffix(".json")))
w_have_annotation ==
    /\ \E w \in Workers :
        /\ At(w, "have_annotation")
        /\ IF ~have_annotation(annotation, worker[w].id)
           THEN /\ Goto(w, "is_pdb_downloaded")
                /\ UNCHANGED pool_error
           ELSE Finish(w, outputs[worker[w].id] = 0)
    /\ UNCHANGED <<pool_pc, tasks, annotation, outputs, mmtf, prepared, dpf_pc, dpf_id,
                   dpf_acquired, metaVars, deriveVars, dbaVars, svVars, runVars>>

\* rcsb.download_pdb_file(pdb_id): if not utils.is_pdb_downloaded(pdb_id)
w_is_pdb_downloaded ==
    /\ \E w \in Workers :
        /\ At(w, "is_pdb_downloaded")
        /\ Goto(w, IF ~is_pdb_downloaded(mmtf, worker[w].id)
                   THEN "download_biological_assembly"
                   ELSE "volumize_pdb_and_save")
    /\ UNCHANGED <<pool_pc, tasks, annotation, outputs, pool_error, mmtf, prepared,
                   dpf_pc, dpf_id, dpf_acquired, metaVars, deriveVars, dbaVars, svVars, runVars>>

\* if download_biological_assembly(pdb_id): the archive is written on True;
\* on False download_pdb_file returns the path all the same, and
\* "if not rcsb.download_pdb_file(pdb_id)" lets the task go on
w_download_biological_assembly ==
    /\ \E w \in Workers : \E result \in AcquisitionResults :
        /\ At(w, "download_biological_assembly")
        /\ IF result \in Exts
           THEN /\ archive' = Retrieved(archive, worker[w].id, result)
                /\ Goto(w, "decompress_pdb")
                /\ UNCHANGED pool_error
           ELSE /\ UNCHANGED archive
                /\ IF result = "raised"
                   THEN Finish(w, TRUE)
                   ELSE /\ Goto(w, IF ~Truthy(download_pdb_file_value(worker[w].id))
                                   THEN "idle"
                                   ELSE "volumize_pdb_and_save")
                        /\ UNCHANGED pool_error
    /\ UNCHANGED <<pool_pc, tasks, annotation, outputs, mmtf, prepared, dpf_pc, dpf_id,
                   dpf_acquired, metaVars, deriveVars, dba_pc, dba_id, dba_clean, dba_retries, dba_pass, dba_requests,
                   dba_sleeps, dba_result, svVars, runVars>>

\* utils.decompress_pdb(pdb_id): the structure file is written
w_decompress_pdb ==
    /\ \E w \in Workers :
        /\ At(w, "decompress_pdb")
        /\ \E e \in EntryNames : mmtf' = [mmtf EXCEPT ![worker[w].id] = e]
        /\ Goto(w, "volumize_pdb_and_save")
    /\ UNCHANGED <<pool_pc, tasks, annotation, outputs, pool_error, prepared, dpf_pc,
                   dpf_id, dpf_acquired, metaVars, deriveVars, dbaVars, svVars, runVars>>

\* volumizer.volumize_pdb_and_save(downloaded_pdb_path, annotated_pdb_path,
\* annotated_df_path), which cannot read a file that is not there, and the
\* pd.read_json of what it wrote
w_volumize_pdb_and_save ==
    /\ \E w \in Workers :
        /\ At(w, "volumize_pdb_and_save")
        /\ IF ~is_pdb_downloaded(mmtf, worker[w].id)
           THEN /\ Finish(w, TRUE)
                /\ UNCHANGED outputs
           ELSE /\ outputs' = [outputs EXCEPT ![worker[w].id] = Min(@ + 1, MaxWrites)]
                /\ Finish(w, FALSE)
    /\ UNCHANGED <<pool_pc, tasks, annotation, mmtf, prepared, dpf_pc, dpf_id,
                   dpf_acquired, metaVars, deriveVars, dbaVars, svVars, runVars>>

\* starmap returns once every task is over, or raises what a task raised
pool_join ==
    /\ pool_pc = "starmap"
    /\ tasks = <<>>
    /\ \A w \in Workers : At(w, "idle")
    /\ pool_pc' = IF pool_error THEN "raised" ELSE "done"
    /\ UNCHANGED <<tasks, worker, annotation, outputs, pool_error, mmtf, prepared,
                   dpf_pc, dpf_id, dpf_acquired, metaVars, deriveVars, dbaVars, svVars, runVars>>

poolInit ==
    /\ pool_pc = "idle"
    /\ tasks = <<>>
    /\ worker = [w \in Workers |-> Idle]
    /\ annotation = {}
    /\ outputs = [i \in Ids |-> 0]
    /\ pool_error = FALSE

----------------------------------------------------------------------------
(* cli/rcsb.py: get_pdb_size_metrics, the size metrics read from the RCSB *)

\* what a metadata endpoint answers: the record asked for, or a record
\* whose "status" is 404 or 500
Statuses == {"ok", "404", "500"}

Unbound == "unbound"

otherVars == <<dbaVars, svVars, mmtf, prepared, dpf_pc, dpf_id, dpf_acquired, poolVars,
               deriveVars, runVars>>

\* a call of rcsb.get_pdb_size_metrics(pdb_id, retries)
gpsm_call ==
    /\ gpsm_pc \in {"idle", "returned", "raised"}
    /\ \E retries \in RetryArgs : gpsm_retries' = retries
    /\ gpsm_pass' = 0
    /\ general_info' = Unbound
    /\ assembly_info' = Unbound
    /\ gpsm_result' = "none"
    /\ gpsm_pc' = "for"
    /\ UNCHANGED otherVars

\* for _ in range(retries)
gpsm_for ==
    /\ gpsm_pc = "for"
    /\ IF gpsm_pass < gpsm_retries
       THEN /\ gpsm_pass' = gpsm_pass + 1
            /\ gpsm_pc' = "get"
       ELSE /\ gpsm_pc' = "after"
            /\ UNCHANGED gpsm_pass
    /\ UNCHANGED <<gpsm_retries, general_info, assembly_info, gpsm_result, otherVars>>

\* general_info = ...; assembly_info = ...;
\* if ("status" in assembly_info) and (assembly_info["status"] == 500):
\*     continue
\* else: break
gpsm_get ==
    /\ gpsm_pc = "get"
    /\ \E general \in Statuses : \E assembly \in Statuses :
        /\ general_info' = general
        /\ assembly_info' = assembly
        /\ gpsm_pc' = IF assembly = "500" THEN "for" ELSE "after"
    /\ UNCHANGED <<gpsm_retries, gpsm_pass, gpsm_result, otherVars>>

\* after the loop: the ConnectionError when either record's status is 500,
\* else the zeros, the general info or the assembly info; a loop of no
\* pass has bound neither name
gpsm_after ==
    /\ gpsm_pc = "after"
    /\ IF assembly_info = Unbound
       THEN /\ gpsm_pc' = "raised"
            /\ gpsm_result' = "UnboundLocalError"
       ELSE IF assembly_info = "500" \/ general_info = "500"
       THEN /\ gpsm_pc' = "raised"
            /\ gpsm_result' = "ConnectionError"
       ELSE /\ gpsm_pc' = "returned"
            /\ gpsm_result' = IF assembly_info = "404" /\ general_info = "404" THEN "zeros"
                              ELSE IF assembly_info = "404" THEN "general_info"
                              ELSE "assembly_info"
    /\ UNCHANGED <<gpsm_retries, gpsm_pass, general_info, assembly_info, otherVars>>

metaInit ==
    /\ gpsm_pc = "idle"
    /\ gpsm_retries = 0
    /\ gpsm_pass = 0
    /\ general_info = Unbound
    /\ assembly_info = Unbound
    /\ gpsm_result = "none"

----------------------------------------------------------------------------
(* cli/pdb.py: get_stoichiometry, statement by statement *)

\* the most chains a structure of the model has
MaxChains == 4

\* a chain of residues with these names
Chain(names) == [i \in 1..Len(names) |-> Residue(names[i], 1, "")]

\* the chains the structures are built from: sequences A, AA, C, X (MSE is
\* no key of RESIDUE_LETTER_CONVERSION), AAAA and CCCC
ChainLibrary ==
    {Chain(<<"ALA">>), Chain(<<"ALA", "ALA">>), Chain(<<"CYS">>), Chain(<<"MSE">>),
     Chain(<<"ALA", "ALA", "ALA", "ALA">>), Chain(<<"CYS", "CYS", "CYS", "CYS">>)}

StoichStructures == UNION {[1..n -> ChainLibrary] : n \in 0..MaxChains}

\* the match_cutoff arguments tried, in percent: the default and two others
Cutoffs == {50, SEQUENCE_IDENTITY_CUTOFF, 100}

\* align_optimal is the toolkit's ("toolkit") or one that pairs identical
\* sequences residue by residue and aligns nothing of two different ones
\* ("exact")
Aligners == {"toolkit", "exact"}

Abs(i) == IF i >= 0 THEN i ELSE -i

\* a trace that pairs the shorter sequence, without inner gaps, with the
\* residues of the longer one from position k on; the rest of the longer
\* one is opposite gaps
OffsetTrace(query, representative, k) ==
    [c \in 1..Max(Len(query), Len(representative)) |->
        << IF Len(query) >= Len(representative) THEN c - 1
           ELSE IF c > k /\ c <= k + Len(query) THEN c - 1 - k ELSE -1,
           IF Len(representative) >= Len(query) THEN c - 1
           ELSE IF c > k /\ c <= k + Len(representative) THEN c - 1 - k ELSE -1 >>]

\* the traces the toolkit's global alignment is taken to choose from: two
\* sequences of one length are paired residue by residue, a shorter one is
\* placed somewhere along the longer one
ToolkitTraces(query, representative) ==
    {OffsetTrace(query, representative, k) :
        k \in 0..Abs(Len(query) - Len(representative))}

\* the trace of an alignment that finds two different sequences wholly
\* dissimilar: identical sequences are paired residue by residue, of two
\* different ones no residue of the representative is aligned
ExactTrace(query, representative) ==
    IF query = representative
    THEN [c \in 1..Len(query) |-> <<c - 1, c - 1>>]
    ELSE [c \in 1..Len(query) |-> <<c - 1, -1>>]

\* alignment[0].trace, as the aligner of the call gives it
Traces(aligner, query, representative) ==
    IF aligner = "exact" THEN {ExactTrace(query, representative)}
    ELSE ToolkitTraces(query, representative)

\* a cutoff that only a greater identity passes
MeetsCutoffStrictly(num, den, match_cutoff) == num * 100 > match_cutoff * den

\* identity >= match_cutoff, for the identity num / den and the cutoff in
\* percent
MeetsCutoff(num, den, match_cutoff) == num * 100 >= match_cutoff * den

\* cluster_sequences[0]
Representative(cluster_sequences) == cluster_sequences[1]

NoSequence == [chain |-> 0, seq |-> <<>>]
NoComparison == [query |-> 0, with |-> 0, trace |-> <<>>, num |-> 0, den |-> 0]

restVars == <<dbaVars, svVars, mmtf, prepared, dpf_pc, dpf_id, dpf_acquired, poolVars,
              metaVars, runVars>>

\* a call of get_stoichiometry(structure, match_cutoff); the for loop over
\* bts.chain_iter(structure) has filled "sequences"
gs_call ==
    /\ gs_pc = "idle"
    /\ \E structure \in StoichStructures :
        /\ gs_input' = [i \in 1..Len(structure) |-> ChainSequence(structure[i])]
        /\ gs_sequences' = [i \in 1..Len(structure) |->
                               [chain |-> i, seq |-> ChainSequence(structure[i])]]
    /\ \E match_cutoff \in Cutoffs : gs_cutoff' = match_cutoff
    /\ \E aligner \in Aligners : gs_aligner' = aligner
    /\ gs_clusters' = <<>>
    /\ gs_query' = NoSequence
    /\ gs_scan' = 0
    /\ gs_joined' = FALSE
    /\ gs_compared' = NoComparison
    /\ gs_rejected' = {}
    /\ gs_result' = <<>>
    /\ gs_pc' = "first"
    /\ UNCHANGED <<sseVars, restVars>>

\* a first cluster that leaves its sequence in the list
gs_first_keeps ==
    /\ gs_pc = "first"
    /\ IF Len(gs_sequences) = 0
       THEN /\ gs_pc' = "raised"
            /\ UNCHANGED <<gs_clusters, gs_sequences>>
       ELSE /\ gs_clusters' = << <<gs_sequences[Len(gs_sequences)]>> >>
            /\ gs_sequences' = gs_sequences
            /\ gs_pc' = "while"
    /\ UNCHANGED <<gs_cutoff, gs_aligner, gs_input, gs_query, gs_scan, gs_joined, gs_compared,
                   gs_rejected, gs_result, sseVars, restVars>>

\* clusters = {cluster_count: [sequences.pop()]}: list.pop() takes the last
\* element and raises IndexError on an empty list
gs_first ==
    /\ gs_pc = "first"
    /\ IF Len(gs_sequences) = 0
       THEN /\ gs_pc' = "raised"
            /\ UNCHANGED <<gs_clusters, gs_sequences>>
       ELSE /\ gs_clusters' = << <<gs_sequences[Len(gs_sequences)]>> >>
            /\ gs_sequences' = SubSeq(gs_sequences, 1, Len(gs_sequences) - 1)
            /\ gs_pc' = "while"
    /\ UNCHANGED <<gs_cutoff, gs_aligner, gs_input, gs_query, gs_scan, gs_joined, gs_compared,
                   gs_rejected, gs_result, sseVars, restVars>>

\* while len(sequences) > 0: query_sequence = sequences.pop();
\* joined_cluster = False; the for loop starts at the first cluster
gs_while ==
    /\ gs_pc = "while"
    /\ IF Len(gs_sequences) > 0
       THEN /\ gs_query' = gs_sequences[Len(gs_sequences)]
            /\ gs_sequences' = SubSeq(gs_sequences, 1, Len(gs_sequences) - 1)
            /\ gs_joined' = FALSE
            /\ gs_scan' = 1
            /\ gs_rejected' = {}
            /\ gs_pc' = "for"
       ELSE /\ gs_pc' = "return"
            /\ UNCHANGED <<gs_query, gs_sequences, gs_joined, gs_scan, gs_rejected>>
    /\ UNCHANGED <<gs_cutoff, gs_aligner, gs_input, gs_clusters, gs_compared, gs_result,
                   sseVars, restVars>>

\* for cluster_id, cluster_sequences in clusters.items(): the alignment of
\* the query with cluster_sequences[0] and the identity, or the end of the
\* loop
gs_align ==
    /\ gs_pc = "for"
    /\ IF gs_scan <= Len(gs_clusters)
       THEN /\ \E trace \in Traces(gs_aligner, gs_query.seq,
                                   Representative(gs_clusters[gs_scan]).seq) :
                gs_compared' = [query |-> gs_query.chain,
                                with |-> Representative(gs_clusters[gs_scan]).chain,
                                trace |-> trace,
                                num |-> IdentityCount(trace),
                                den |-> Len(trace)]
            /\ gs_pc' = "if"
       ELSE /\ gs_pc' = "end_for"
            /\ UNCHANGED gs_compared
    /\ UNCHANGED <<gs_cutoff, gs_aligner, gs_input, gs_sequences, gs_clusters, gs_query,
                   gs_scan, gs_joined, gs_rejected, gs_result, sseVars, restVars>>

\* if identity >= match_cutoff: append, joined_cluster = True, break;
\* else the next cluster
gs_if ==
    /\ gs_pc = "if"
    /\ IF MeetsCutoff(gs_compared.num, gs_compared.den, gs_cutoff)
       THEN /\ gs_clusters' = [gs_clusters EXCEPT ![gs_scan] = Append(@, gs_query)]
            /\ gs_joined' = TRUE
            /\ gs_pc' = "end_for"
            /\ UNCHANGED <<gs_scan, gs_rejected>>
       ELSE /\ gs_rejected' = gs_rejected \cup {gs_scan}
            /\ gs_scan' = gs_scan + 1
            /\ gs_pc' = "for"
            /\ UNCHANGED <<gs_clusters, gs_joined>>
    /\ UNCHANGED <<gs_cutoff, gs_aligner, gs_input, gs_sequences, gs_query, gs_compared,
                   gs_result, sseVars, restVars>>

\* a loop end that starts a cluster whether or not the query has joined one
gs_end_for_always ==
    /\ gs_pc = "end_for"
    /\ gs_clusters' = Append(gs_clusters, <<gs_query>>)
    /\ gs_pc' = "while"
    /\ UNCHANGED <<gs_cutoff, gs_aligner, gs_input, gs_sequences, gs_query, gs_scan, gs_joined,
                   gs_compared, gs_rejected, gs_result, sseVars, restVars>>

\* if not joined_cluster: cluster_count += 1;
\* clusters[cluster_count] = [query_sequence]
gs_end_for ==
    /\ gs_pc = "end_for"
    /\ gs_clusters' = IF gs_joined THEN gs_clusters ELSE Append(gs_clusters, <<gs_query>>)
    /\ gs_pc' = "while"
    /\ UNCHANGED <<gs_cutoff, gs_aligner, gs_input, gs_sequences, gs_query, gs_scan, gs_joined,
                   gs_compared, gs_rejected, gs_result, sseVars, restVars>>

\* a return whose cluster ids count from 1
gs_return_from_one ==
    /\ gs_pc = "return"
    /\ gs_result' = [c \in 1..Len(gs_clusters) |->
                        Item(IntKey(Str(c)), IntVal(Len(gs_clusters[c])))]
    /\ gs_pc' = "returned"
    /\ UNCHANGED <<gs_cutoff, gs_aligner, gs_input, gs_sequences, gs_clusters, gs_query,
                   gs_scan, gs_joined, gs_compared, gs_rejected, sseVars, restVars>>

\* return {cluster_id: len(cluster_sequences) for ... in clusters.items()}
gs_return ==
    /\ gs_pc = "return"
    /\ gs_result' = [c \in 1..Len(gs_clusters) |->
                        Item(IntKey(Str(c - 1)), IntVal(Len(gs_clusters[c])))]
    /\ gs_pc' = "returned"
    /\ UNCHANGED <<gs_cutoff, gs_aligner, gs_input, gs_sequences, gs_clusters, gs_query,
                   gs_scan, gs_joined, gs_compared, gs_rejected, sseVars, restVars>>

\* the call is over and its caller has taken the result: the locals are gone
gs_leave ==
    /\ gs_pc \in {"returned", "raised"}
    /\ gs_pc' = "idle"
    /\ gs_cutoff' = SEQUENCE_IDENTITY_CUTOFF
    /\ gs_aligner' = "toolkit"
    /\ gs_input' = <<>>
    /\ gs_sequences' = <<>>
    /\ gs_clusters' = <<>>
    /\ gs_query' = NoSequence
    /\ gs_scan' = 0
    /\ gs_joined' = FALSE
    /\ gs_compared' = NoComparison
    /\ gs_rejected' = {}
    /\ gs_result' = <<>>
    /\ UNCHANGED <<sseVars, restVars>>

stoichInit ==
    /\ gs_pc = "idle"
    /\ gs_cutoff = SEQUENCE_IDENTITY_CUTOFF
    /\ gs_aligner = "toolkit"
    /\ gs_input = <<>>
    /\ gs_sequences = <<>>
    /\ gs_clusters = <<>>
    /\ gs_query = NoSequence
    /\ gs_scan = 0
    /\ gs_joined = FALSE
    /\ gs_compared = NoComparison
    /\ gs_rejected = {}
    /\ gs_result = <<>>

----------------------------------------------------------------------------
(* cli/pdb.py: get_secondary_structure, applied to labelled residues *)

\* the most residues a labelled structure of the model has
MaxResidues == 4

\* what bts.annotate_sse gives a residue: helix, strand, coil or no label
SseLabels == {"a", "b", "c", ""}

LabelLists == UNION {[1..n -> SseLabels] : n \in 0..MaxResidues}

\* a one-chain structure whose residues carry these labels
Labelled(labels) == << [i \in 1..Len(labels) |-> Residue("ALA", 1, labels[i])] >>

\* a call of get_secondary_structure(structure)
ss_call ==
    /\ \E labels \in LabelLists :
        /\ ss_labels' = labels
        /\ ss_record' = get_secondary_structure(Labelled(labels))
    /\ UNCHANGED <<stoichVars, restVars>>

sseInit ==
    /\ ss_labels = <<>>
    /\ ss_record = <<>>

----------------------------------------------------------------------------
(* The specifications *)

Init ==
    dbaInit /\ svInit /\ dpfInit /\ runInit /\ poolInit /\ metaInit /\ stoichInit /\ sseInit

\* SpecAcq: a caller of download_biological_assembly(pdb_id, retries)
acq_call ==
    /\ dba_pc = "idle"
    /\ \E id \in Ids : \E retries \in RetryArgs : dba_enter(id, retries)
    /\ UNCHANGED <<svVars, dpfVars, runVars>>

acq_return ==
    /\ dba_finished
    /\ dba_leave
    /\ UNCHANGED <<svVars, dpfVars, runVars>>

NextAcq ==
    \/ acq_call
    \/ dba_for /\ UNCHANGED <<svVars, dpfVars, runVars>>
    \/ dba_biounit /\ UNCHANGED <<svVars, dpfVars, runVars>>
    \/ dba_bundle /\ UNCHANGED <<svVars, dpfVars, runVars>>
    \/ dba_structure /\ UNCHANGED <<svVars, dpfVars, runVars>>
    \/ dba_sleep /\ UNCHANGED <<svVars, dpfVars, runVars>>
    \/ acq_return

SpecAcq == Init /\ [][NextAcq]_vars

\* SpecAcqLive: the same caller, with every request returning and the
\* interpreter going on to the next statement of a call that has begun
AcqStep == download_biological_assembly /\ UNCHANGED <<svVars, dpfVars, runVars>>

SpecAcqLive == Init /\ [][NextAcq]_vars /\ WF_vars(AcqStep)

\* SpecSave: a process that saves records of one identifier, is killed at
\* any point, and is started again
SaveId == "1abc"

SavedRecords(k) == {Derive(k, clean_structure(Entries[e].structure)) : e \in EntryNames}

save_call ==
    /\ sv_pc \in {"idle", "returned", "interrupted"}
    /\ \E k \in Kinds : \E record \in SavedRecords(k) : sv_enter(SaveId, k, record)
    /\ UNCHANGED <<dbaVars, dpfVars, runVars>>

NextSave ==
    \/ save_call
    \/ sv_open /\ UNCHANGED <<dbaVars, dpfVars, runVars>>
    \/ sv_write /\ UNCHANGED <<dbaVars, dpfVars, runVars>>
    \/ sv_close /\ UNCHANGED <<dbaVars, dpfVars, runVars>>
    \/ sv_interrupt /\ UNCHANGED <<dbaVars, dpfVars, runVars>>

SpecSave == Init /\ [][NextSave]_vars

\* SpecPipe: runs of the filtering scripts, one after the other
NextPipe ==
    \/ main_start
    \/ main_for
    \/ main_have_on_file
    \/ main_is_pdb_downloaded
    \/ dpf_check /\ UNCHANGED <<svVars, runVars>>
    \/ dba_for /\ UNCHANGED <<svVars, dpfVars, runVars>>
    \/ dba_biounit /\ UNCHANGED <<svVars, dpfVars, runVars>>
    \/ dba_bundle /\ UNCHANGED <<svVars, dpfVars, runVars>>
    \/ dba_structure /\ UNCHANGED <<svVars, dpfVars, runVars>>
    \/ dba_sleep /\ UNCHANGED <<svVars, dpfVars, runVars>>
    \/ dpf_resume /\ UNCHANGED <<svVars, runVars>>
    \/ main_download_pdb_file
    \/ main_is_pdb_prepared
    \/ main_get_resolution
    \/ main_early_exit
    \/ main_clean_structure
    \/ main_derive
    \/ sv_open /\ UNCHANGED <<dbaVars, dpfVars, runVars>>
    \/ sv_write /\ UNCHANGED <<dbaVars, dpfVars, runVars>>
    \/ sv_close /\ UNCHANGED <<dbaVars, dpfVars, runVars>>
    \/ main_save
    \/ main_filter

SpecPipe == Init /\ [][NextPipe]_vars

\* SpecPool: runs of volumize.py on a file of identifiers, with Jobs workers
NextPool ==
    \/ pool_start
    \/ pool_take
    \/ w_have_annotation
    \/ w_is_pdb_downloaded
    \/ w_download_biological_assembly
    \/ w_decompress_pdb
    \/ w_volumize_pdb_and_save
    \/ pool_join

SpecPool == Init /\ [][NextPool]_vars

\* SpecMeta: calls of rcsb.get_pdb_size_metrics under every sequence of
\* answers of the two metadata endpoints
NextMeta ==
    \/ gpsm_call
    \/ gpsm_for
    \/ gpsm_get
    \/ gpsm_after

SpecMeta == Init /\ [][NextMeta]_vars

\* SpecStoich: calls of pdb.get_stoichiometry on every structure of up to
\* MaxChains chains, with every cutoff and aligner
NextStoich ==
    \/ gs_call
    \/ gs_first
    \/ gs_while
    \/ gs_align
    \/ gs_if
    \/ gs_end_for
    \/ gs_return
    \/ gs_leave

SpecStoich == Init /\ [][NextStoich]_vars

\* SpecSse: calls of pdb.get_secondary_structure on every labelling of up
\* to MaxResidues residues
NextSse == ss_call

SpecSse == Init /\ [][NextSse]_vars

----------------------------------------------------------------------------
(* Properties of download_biological_assembly, checked under SpecAcq *)

RequestsTo(url) == {i \in 1..Len(dba_requests) : dba_requests[i].url = url}

AllAnswer(url, outcome) == \A i \in RequestsTo(url) : dba_requests[i].outcome = outcome

UrlsAsked == [i \in 1..Len(dba_requests) |-> dba_requests[i].url]

FallbackChain == <<"biounit_url", "bundle_url", "structure_url">>

\* C1: a connectivity error (a URLError that is no HTTPError) at any of the
\* three locations does not leave the call: after it the call sleeps and
\* starts the chain again, and it returns False once the passes are used up.
C1_ConnectivityErrorIsRetried ==
    (Len(dba_requests) > 0 /\ dba_requests[Len(dba_requests)].outcome = "URLError") =>
        /\ dba_pc \in {"sleep", "for", "returned"}
        /\ dba_pc = "returned" => (~dba_result /\ dba_pass = dba_retries)

\* C5: when the assembly and the bundle location answer not-found and the
\* structure location succeeds, the call returns True after exactly one
\* request to each location, in the order assembly, bundle, structure, with
\* no sleep and within the first pass of the loop.
C5_FallbackOrder ==
    ( /\ dba_finished
      /\ dba_retries >= 1
      /\ AllAnswer("biounit_url", "HTTPError")
      /\ AllAnswer("bundle_url", "HTTPError")
      /\ AllAnswer("structure_url", "ok") ) =>
        /\ dba_pc = "returned"
        /\ dba_result
        /\ UrlsAsked = FallbackChain
        /\ dba_sleeps = 0
        /\ dba_pass = 1
        /\ archive[dba_id]["pdb1.gz"] = "complete"

C5_Witness ==
    /\ dba_pc = "returned"
    /\ dba_result
    /\ dba_retries = RCSB_CONTACT_RETRIES
    /\ dba_requests = << Request("biounit_url", "HTTPError"),
                         Request("bundle_url", "HTTPError"),
                         Request("structure_url", "ok") >>

\* C6: when every request to the first location fails with a connectivity
\* error, a call with retries = N returns False after exactly N requests to
\* the first location and N sleeps, asks no other location and raises
\* nothing.
C6_RetryBudget ==
    (dba_finished /\ AllAnswer("biounit_url", "URLError")) =>
        /\ dba_pc = "returned"
        /\ ~dba_result
        /\ Len(dba_requests) = dba_retries
        /\ RequestsTo("bundle_url") = {}
        /\ RequestsTo("structure_url") = {}
        /\ dba_sleeps = dba_retries

C6_Witness ==
    /\ dba_pc = "returned"
    /\ dba_retries = RCSB_CONTACT_RETRIES
    /\ Len(dba_requests) = RCSB_CONTACT_RETRIES
    /\ AllAnswer("biounit_url", "URLError")

\* C7 as claimed: when all three locations answer not-found, the call
\* returns False only after every location was tried and the retry budget
\* was exhausted.
C7_NotFoundExhaustsBudget ==
    ( /\ dba_finished
      /\ dba_retries >= 1
      /\ \A url \in Urls : AllAnswer(url, "HTTPError") ) =>
        /\ dba_pc = "returned"
        /\ ~dba_result
        /\ \A url \in Urls : RequestsTo(url) # {}
        /\ dba_pass = dba_retries

\* C7 as amended: when all three locations answer not-found, the call
\* returns False rather than raising, after exactly one request to each
\* location within its first pass: no sleep, and the passes left of the
\* retry budget are not used.
C7_NotFoundReturnsFalse ==
    ( /\ dba_finished
      /\ dba_retries >= 1
      /\ \A url \in Urls : AllAnswer(url, "HTTPError") ) =>
        /\ dba_pc = "returned"
        /\ ~dba_result
        /\ UrlsAsked = FallbackChain
        /\ dba_pass = 1
        /\ dba_sleeps = 0

C7_Witness ==
    /\ dba_pc = "returned"
    /\ ~dba_result
    /\ dba_retries = RCSB_CONTACT_RETRIES
    /\ dba_pass = 1
    /\ Len(dba_requests) = 3
    /\ \A url \in Urls : AllAnswer(url, "HTTPError")

\* the archive files of id in the download directory, partial ones included
ArchiveFiles(id) == {e \in Exts : archive[id][e] # "none"}

\* C13: a call that began with no archive file of its identifier leaves
\* exactly one, complete, archive file of it when it returns True, and no
\* file of it, partial or complete, when it returns False or raises.
C13_AcquisitionSideEffects ==
    (dba_finished /\ dba_clean) =>
        IF dba_pc = "returned" /\ dba_result
        THEN \E e \in Exts : /\ ArchiveFiles(dba_id) = {e}
                              /\ archive[dba_id][e] = "complete"
        ELSE ArchiveFiles(dba_id) = {}

----------------------------------------------------------------------------
(* Properties of the metric cache, checked under SpecSave *)

\* C4: save is all-or-nothing: whenever the process was interrupted inside
\* save_<kind>, a record that have_<kind>_on_file reports as present is one
\* that load_<kind> parses.
C4_SaveAllOrNothing ==
    (sv_pc = "interrupted" /\ have_on_file(cache, sv_id, sv_kind)) =>
        load(cache, sv_id, sv_kind).status = "ok"

\* C24: cache round trip: for every kind and every record the derivations
\* produce, load after a completed save returns a record equal to the one
\* saved, keys of the same type included (the int cluster ids of a
\* stoichiometry record stay ints).
C24_CacheRoundTrip ==
    sv_pc = "returned" =>
        load(cache, sv_id, sv_kind) = [status |-> "ok", value |-> sv_metrics]

----------------------------------------------------------------------------
(* Properties of the filtering scripts, checked under SpecPipe *)

AfterGate == {"get_resolution", "early_exit", "clean_structure", "derive", "save", "filter"}

\* C2: when the acquisition of an identifier fails, the identifier is
\* skipped: neither the resolution gate nor the preparation, the
\* derivation, the cache save or the filter is executed for it, and it is
\* not in the output list.
C2_FailedAcquisitionSkips ==
    \A i \in 1..Len(calls) :
        calls[i] = "not downloaded" =>
            \A j \in (i + 1)..Len(calls) : calls[j] \notin AfterGate

\* C3: the batch always reaches its end and writes the output list: no
\* failure while one identifier is processed ends the run.
C3_BatchAlwaysCompletes == run_pc # "raised"

\* C8: for an identifier whose record of the requested kind is in the cache
\* when its iteration begins, the iteration calls load and the filter and
\* nothing else: no download_pdb_file, no download_biological_assembly, no
\* get_resolution, no preparation; the filter sees the loaded record.
C8_CacheHitBypassesNetwork ==
    at_start.file.exists =>
        /\ \A i \in 1..Len(calls) : calls[i] \in {"load", "filter"}
        /\ dpf_pc = "idle"
        /\ dba_pc = "idle"
        /\ run_pc \in {"have_on_file", "filter", "for", "done"}
        /\ run_pc \in {"filter", "for", "done"} =>
                metric = [status |-> "ok", value |-> JsonLoad(at_start.file.text)]
        /\ run_pc \in {"for", "done"} => calls = <<"load", "filter">>

C8_Witness ==
    /\ at_start.file.exists
    /\ run_pc = "for"
    /\ calls = <<"load", "filter">>
    /\ Len(satisfied_pdb_ids) > 0
    /\ satisfied_pdb_ids[Len(satisfied_pdb_ids)] = cur_id

\* C9: an iteration on an identifier whose record an earlier iteration has
\* computed and saved leaves the cached record as it was, at every step,
\* and calls neither the acquisition nor the preparation.
C9_SecondRunIdempotent ==
    at_start.saved =>
        /\ JsonParses(at_start.file.text)
        /\ cache[cur_id][run_kind] = at_start.file
        /\ \A i \in 1..Len(calls) :
                calls[i] \notin {"download_pdb_file", "downloaded", "not downloaded",
                                 "clean_structure"}
        /\ dpf_pc = "idle"
        /\ dba_pc = "idle"

C9_Witness ==
    /\ at_start.saved
    /\ run_pc = "done"
    /\ idx = 2
    /\ pdb_ids[1] = pdb_ids[2]
    /\ Len(calls) = 2

\* what the iteration calls after its i-th call: the next call made, or the
\* position it is at
NextCall(i) == IF i < Len(calls) THEN calls[i + 1] ELSE run_pc

Skipped(i) == i = Len(calls) /\ run_pc \in {"for", "done"}

AboveMaximum(id) ==
    /\ Entries[mmtf[id]].resolution.present
    /\ Entries[mmtf[id]].resolution.value > MAX_RESOLUTION

\* for an identifier whose resolution is above the maximum the preparation,
\* the derivation and the save are never executed
NeverPreparedAboveMaximum ==
    \A id \in Ids :
        (mmtf[id] # "none" /\ AboveMaximum(id)) =>
            /\ prepared[id] = "none"
            /\ \A k \in Kinds : ~cache[id][k].exists

\* C10 as claimed: an identifier whose resolution is present and above the
\* maximum is never prepared, derived or saved; one whose resolution is
\* absent or at most the maximum proceeds from the gate to the preparation.
C10_GatePassProceedsToPreparation ==
    /\ NeverPreparedAboveMaximum
    /\ \A i \in 1..Len(calls) :
            (calls[i] = "get_resolution" /\ mmtf[cur_id] # "none") =>
                IF AboveMaximum(cur_id) THEN Skipped(i)
                ELSE NextCall(i) = "clean_structure"

\* C10 as amended: an identifier whose resolution is present and above the
\* maximum is never prepared, derived or saved; one whose resolution is
\* absent or at most the maximum passes the gate: in the stoichiometry and
\* secondary-structure scripts it proceeds to the preparation, in the size
\* script to the size check of the unprepared structure, and from there to
\* the preparation only when that size is within the doubled bounds.
C10_GateBeforePreparation ==
    /\ NeverPreparedAboveMaximum
    /\ \A i \in 1..Len(calls) :
            (calls[i] = "get_resolution" /\ mmtf[cur_id] # "none") =>
                IF AboveMaximum(cur_id) THEN Skipped(i)
                ELSE NextCall(i) = IF run_kind = "size" THEN "early_exit"
                                   ELSE "clean_structure"
    /\ \A i \in 1..Len(calls) :
            calls[i] = "early_exit" =>
                IF pdb_satisfies_metrics(
                       get_pdb_size_metrics(Entries[mmtf[cur_id]].structure),
                       preparation_metrics(run_metrics))
                THEN NextCall(i) = "clean_structure"
                ELSE Skipped(i)

C10_Witness ==
    /\ run_kind = "size"
    /\ run_pc = "for"
    /\ idx >= 1
    /\ Len(calls) >= 2
    /\ calls[Len(calls) - 1] = "get_resolution"
    /\ calls[Len(calls)] = "early_exit"
    /\ mmtf[cur_id] = "at_cutoff"

----------------------------------------------------------------------------
(* Properties of the worker pool, checked under SpecPool *)

\* worker w has found the structure file of its identifier missing and has
\* not written it yet
InDownloadSection(w) == worker[w].pc \in {"download_biological_assembly", "decompress_pdb"}

\* worker w has found no annotation of its identifier and has not written
\* the annotated files yet
InOutputSection(w) ==
    worker[w].pc \in {"is_pdb_downloaded", "download_biological_assembly",
                      "decompress_pdb", "volumize_pdb_and_save"}

\* C12: no two workers are at the same time between the existence check
\* and the write of the same download file, nor of the same output file,
\* whatever the list of identifiers, repeated identifiers included.
C12_NoTwoWorkersOnOneFile ==
    \A w1, w2 \in Workers :
        (w1 # w2 /\ worker[w1].id = worker[w2].id) =>
            /\ ~(InDownloadSection(w1) /\ InDownloadSection(w2))
            /\ ~(InOutputSection(w1) /\ InOutputSection(w2))

----------------------------------------------------------------------------
(* Properties of the metadata fetch, checked under SpecMeta *)

ServerError == general_info = "500" \/ assembly_info = "500"

\* C14: a status 500 from either endpoint makes the call fetch both again
\* while passes remain; the ConnectionError is raised only once the passes
\* are used up with a status 500 still there.
C14_ServerErrorRetried ==
    /\ (gpsm_pc \in {"for", "after"} /\ ServerError /\ gpsm_pass < gpsm_retries) =>
            gpsm_pc = "for"
    /\ (gpsm_pc = "raised" /\ gpsm_result = "ConnectionError") =>
            (gpsm_pass = gpsm_retries /\ ServerError)

----------------------------------------------------------------------------
(* Termination of download_biological_assembly, checked under SpecAcqLive *)

\* the request at position i of the call was answered not-found by the
\* first location
NotFoundAtFirst(i) ==
    dba_requests[i].url = "biounit_url" /\ dba_requests[i].outcome = "HTTPError"

\* C22: a call with the retry budget N terminates, given that each request
\* returns; it makes at most N requests to the first location and at most
\* one each to the second and the third; a not-found answer of the first
\* location ends the call within the same pass (no sleep, no further pass,
\* no further request to the first location).
C22_CallTerminates ==
    /\ [](/\ Cardinality(RequestsTo("biounit_url")) <= dba_retries
          /\ Cardinality(RequestsTo("bundle_url")) <= 1
          /\ Cardinality(RequestsTo("structure_url")) <= 1)
    /\ [](\A i \in 1..Len(dba_requests) : NotFoundAtFirst(i) =>
            /\ dba_pc \in {"bundle", "structure", "returned", "raised"}
            /\ dba_pass = Cardinality(RequestsTo("biounit_url"))
            /\ \A j \in (i + 1)..Len(dba_requests) : dba_requests[j].url # "biounit_url")
    /\ (dba_pc # "idle") ~> dba_finished

\* a call with a budget of 3 slept once, was answered not-found by the
\* first and the second location in its second pass, and has returned
C22_Witness ==
    /\ dba_pc = "returned"
    /\ dba_retries = 3
    /\ dba_pass = 2
    /\ dba_sleeps = 1
    /\ Len(dba_requests) = 4
    /\ NotFoundAtFirst(2)
    /\ dba_requests[4].url = "structure_url"

----------------------------------------------------------------------------
(* Properties of get_stoichiometry, checked under SpecStoich *)

\* the chains placed in a cluster so far
Placed == UNION {{gs_clusters[c][m].chain : m \in 1..Len(gs_clusters[c])} : c \in 1..Len(gs_clusters)}

\* C15: get_stoichiometry processes the chain sequences in chain order,
\* first chain first: every chain still waiting comes after every chain
\* already placed, cluster 0's representative is the first chain of the
\* structure, and the representative of every cluster is the earliest
\* chain among the members of that cluster.
C15_ChainOrderProcessing ==
    /\ \A i \in 1..Len(gs_sequences) : \A p \in Placed : p < gs_sequences[i].chain
    /\ Len(gs_clusters) > 0 => Representative(gs_clusters[1]).chain = 1
    /\ \A c \in 1..Len(gs_clusters) : \A m \in 1..Len(gs_clusters[c]) :
           Representative(gs_clusters[c]).chain <= gs_clusters[c][m].chain

\* the columns of a trace where neither the query nor the representative
\* has a gap
BothPresent(trace) == {c \in 1..Len(trace) : trace[c][1] # -1 /\ trace[c][2] # -1}

\* C16: the identity used for clustering is the number of alignment
\* positions where neither the query nor the representative has a gap,
\* over the alignment length; a position where either has a gap does not
\* count.
C16_IdentityExcludesGaps ==
    /\ gs_compared.den = Len(gs_compared.trace)
    /\ gs_compared.num = Cardinality(BothPresent(gs_compared.trace))

\* every cluster keeps the members it has, in their places, and no cluster
\* disappears
MembersStay ==
    /\ Len(gs_clusters') >= Len(gs_clusters)
    /\ \A c \in 1..Len(gs_clusters) :
        /\ Len(gs_clusters'[c]) >= Len(gs_clusters[c])
        /\ SubSeq(gs_clusters'[c], 1, Len(gs_clusters[c])) = gs_clusters[c]

\* C17: greedy first-match assignment. A processed sequence is compared
\* only with the first member of a cluster, cluster after cluster in
\* creation order; it is appended to the first cluster whose identity is at
\* least the cutoff (an identity equal to the cutoff is a match) and no
\* later cluster is examined for it; when no representative matches, a new
\* cluster is created with the sequence as its only member; a placed
\* sequence is never moved.
C17_GreedyFirstMatch ==
    /\ [](gs_pc = "if" =>
            /\ gs_compared.query = gs_query.chain
            /\ gs_compared.with = gs_clusters[gs_scan][1].chain
            /\ gs_rejected = 1..(gs_scan - 1))
    /\ [](gs_pc = "end_for" =>
            IF gs_joined
            THEN /\ gs_clusters[gs_scan][Len(gs_clusters[gs_scan])] = gs_query
                 /\ gs_rejected = 1..(gs_scan - 1)
            ELSE gs_rejected = 1..Len(gs_clusters))
    /\ [][gs_pc = "if" =>
            IF gs_compared.num * 100 >= gs_cutoff * gs_compared.den
            THEN /\ gs_clusters' = [gs_clusters EXCEPT ![gs_scan] = Append(@, gs_query)]
                 /\ gs_joined'
                 /\ gs_pc' = "end_for"
            ELSE /\ gs_clusters' = gs_clusters
                 /\ gs_scan' = gs_scan + 1
                 /\ gs_pc' = "for"]_vars
    /\ [][gs_pc = "end_for" =>
            /\ gs_pc' = "while"
            /\ gs_clusters' = IF gs_joined THEN gs_clusters
                              ELSE Append(gs_clusters, <<gs_query>>)]_vars
    /\ [][gs_joined /\ gs_pc' # "idle" => gs_compared' = gs_compared]_vars
    /\ [][gs_pc' # "idle" => MembersStay]_vars

\* a sequence that the first representative did not match has joined the
\* second cluster with an identity of exactly the cutoff, and a third
\* cluster is there that it was not compared with
C17_Witness ==
    /\ gs_pc = "end_for"
    /\ gs_joined
    /\ gs_scan = 2
    /\ gs_rejected = {1}
    /\ Len(gs_clusters) = 3
    /\ gs_compared.num * 100 = gs_cutoff * gs_compared.den

\* how many clusters of the returned dict have n members, for every n
ReturnedCounts ==
    [n \in 1..Len(gs_input) |->
        Cardinality({c \in 1..Len(gs_result) : gs_result[c].val.n = n})]

\* how many different sequences the structure has in exactly n chains each
ClassSizes ==
    [n \in 1..Len(gs_input) |->
        Cardinality({i \in 1..Len(gs_input) :
            /\ \A j \in 1..(i - 1) : gs_input[j] # gs_input[i]
            /\ Cardinality({j \in 1..Len(gs_input) : gs_input[j] = gs_input[i]}) = n})]

AAAA == <<"A", "A", "A", "A">>
CCCC == <<"C", "C", "C", "C">>

\* C18: with an alignment that gives identical sequences the identity 1.0
\* and different sequences the identity 0.0, the member counts returned are,
\* as a multiset, the sizes of the classes of equal sequences, whatever the
\* order of the chains: in particular two chains AAAA and one chain of
\* another residue (CCCC), in either order, give two clusters with the
\* counts 2 and 1.
C18_CountsOrderIndependent ==
    (gs_pc = "returned" /\ gs_aligner = "exact") =>
        /\ ReturnedCounts = ClassSizes
        /\ gs_input \in {<<AAAA, AAAA, CCCC>>, <<CCCC, AAAA, AAAA>>} =>
            /\ Len(gs_result) = 2
            /\ {gs_result[1].val.n, gs_result[2].val.n} = {1, 2}

\* the call on AAAA, AAAA, CCCC with the default cutoff has returned
C18_Witness ==
    /\ gs_pc = "returned"
    /\ gs_aligner = "exact"
    /\ gs_cutoff = SEQUENCE_IDENTITY_CUTOFF
    /\ gs_input = <<AAAA, AAAA, CCCC>>
    /\ Len(gs_result) = 2

\* all chains of the structure have one sequence
AllChainsIdentical == \A i \in 1..Len(gs_input) : gs_input[i] = gs_input[1]

\* C19: a structure with exactly one chain yields exactly one cluster of
\* size 1, and a structure of n >= 1 chains that all have the same sequence
\* yields exactly one cluster of size n; such a call returns.
C19_ClusteringEdgeCases ==
    /\ gs_pc = "raised" => Len(gs_input) = 0
    /\ gs_pc = "returned" =>
        /\ Len(gs_input) = 1 => gs_result = <<Item(IntKey("0"), IntVal(1))>>
        /\ (Len(gs_input) >= 1 /\ AllChainsIdentical) =>
               gs_result = <<Item(IntKey("0"), IntVal(Len(gs_input)))>>

\* the call on three chains of one sequence, aligned by the toolkit, has
\* returned
C19_Witness ==
    /\ gs_pc = "returned"
    /\ gs_aligner = "toolkit"
    /\ Len(gs_input) = 3
    /\ AllChainsIdentical
    /\ Len(gs_result) = 1

\* the clusters, and the places in them, that hold chain i
PlacesOf(i) ==
    {p \in UNION {{<<c, m>> : m \in 1..Len(gs_clusters[c])} : c \in 1..Len(gs_clusters)} :
        gs_clusters[p[1]][p[2]].chain = i}

----------------------------------------------------------------------------
(* Properties of get_secondary_structure, checked under SpecSse *)

IsHelix(label) == label = "a"
IsStrand(label) == label = "b"
IsLabelled(label) == label # ""

\* h, s and t of the labels of the call
HelixLabelled == Len(SelectSeq(ss_labels, IsHelix))
StrandLabelled == Len(SelectSeq(ss_labels, IsStrand))
AnyLabelled == Len(SelectSeq(ss_labels, IsLabelled))

\* the float val is the quotient num / den
IsQuotient(val, num, den) == val.t = "float" /\ val.d > 0 /\ val.n * den = num * val.d

\* C20: the fractions are taken over the labelled residues only. With h
\* helix labels, s strand labels and t > 0 non-empty labels the record is
\* helix = h/t, strand = s/t, coil = (t - h - s)/t; the numerators are not
\* negative and sum to t (the fractions sum to 1); and the residues with an
\* empty label change nothing: the record is that of the labelled residues
\* alone.
C20_FractionsOverLabelled ==
    (ss_record # <<>> /\ AnyLabelled > 0) =>
        /\ Len(ss_record) = 3
        /\ ss_record[1].key = StrKey("helix")
        /\ IsQuotient(ss_record[1].val, HelixLabelled, AnyLabelled)
        /\ ss_record[2].key = StrKey("strand")
        /\ IsQuotient(ss_record[2].val, StrandLabelled, AnyLabelled)
        /\ ss_record[3].key = StrKey("coil")
        /\ IsQuotient(ss_record[3].val, AnyLabelled - HelixLabelled - StrandLabelled, AnyLabelled)
        /\ AnyLabelled - HelixLabelled - StrandLabelled >= 0
        /\ \A i \in 1..3 : ss_record[i].val.n >= 0
        /\ ss_record[1].val.n * ss_record[2].val.d * ss_record[3].val.d
             + ss_record[2].val.n * ss_record[1].val.d * ss_record[3].val.d
             + ss_record[3].val.n * ss_record[1].val.d * ss_record[2].val.d
           = ss_record[1].val.d * ss_record[2].val.d * ss_record[3].val.d
        /\ ss_record = get_secondary_structure(Labelled(SelectSeq(ss_labels, IsLabelled)))

\* the record of a structure with a helix, a strand and a coil residue and
\* one residue without a label
C20_Witness ==
    /\ ss_record # <<>>
    /\ HelixLabelled > 0
    /\ StrandLabelled > 0
    /\ AnyLabelled > HelixLabelled + StrandLabelled
    /\ Len(ss_labels) > AnyLabelled

\* C21: when no residue of the structure carries a non-empty label, a
\* structure without residues included, get_secondary_structure returns
\* exactly helix 0.0, strand 0.0, coil 1.0; it divides by nothing.
C21_DegenerateRecord ==
    (ss_record # <<>> /\ AnyLabelled = 0) =>
        ss_record = << Item(StrKey("helix"), FloatVal(0, 1)),
                       Item(StrKey("strand"), FloatVal(0, 1)),
                       Item(StrKey("coil"), FloatVal(1, 1)) >>

\* the record of a structure of two residues, neither of them labelled
C21_Witness ==
    /\ ss_record # <<>>
    /\ Len(ss_labels) = 2
    /\ AnyLabelled = 0
    /\ ss_record[3] = Item(StrKey("coil"), FloatVal(1, 1))

----------------------------------------------------------------------------
(* Properties of volumize_pdb_id, checked under SpecPool *)

\* C25: once volumize_pdb_id(id) has gone through its work branch and
\* written the annotated structure and the annotation table, have_annotation(id)
\* is true, so that a later volumize_pdb_id(id) takes the already-annotated
\* branch.
C25_AnnotatedAfterWork ==
    \A id \in Ids : outputs[id] > 0 => have_annotation(annotation, id)

====
